---- MODULE Spec2Model ----
(***************************************************************************)
(* Verification development for ics-ta-bot.                                *)
(*                                                                         *)
(* Two state machines share this module:                                   *)
(*   SpecAuth  - the e-mail one-time-code flow of AuthService (variant     *)
(*               with the whitelist and the admin list kept in Redis and   *)
(*               the temp codes kept in memory).                           *)
(*   SpecQuota - the /api/query handler together with UserService, in its  *)
(*               file-backed variant and in its Redis-backed variant.      *)
(*                                                                         *)
(* An async function of the program is split at its awaits: every action   *)
(* below is one run-to-completion segment of the JavaScript event loop.    *)
(***************************************************************************)
EXTENDS Integers, Naturals, FiniteSets, Sequences, TLC

VARIABLES
    whitelist,   \* Redis set 'whitelisted_emails'
    admins,      \* Redis set 'admin_emails' / config.adminEmails
    tempCodes,   \* AuthService.tempCodes: email -> {code, expires}
    now,         \* Date.now(), in minutes
    acall,       \* in-flight AuthService calls, per task
    reply,       \* what the step just taken returned to its caller, if anything
    ncalls,      \* history: number of operations started
    trail,       \* history: what last happened to the record of an email
    mailed,      \* the mail the step just taken handed to the transport, if any
    userData,    \* content of data/user_queries.json
    redisCounts, \* Redis hashes user_queries:<email>, field = day
    redisExpire, \* day on which Redis drops user_queries:<email>
    today,       \* UTC calendar day, as a day number
    variant,     \* which UserService serves the handler
    qcall,       \* in-flight /api/query requests, per task
    qreply,      \* the HTTP status the step just taken answered with, if any
    checked,     \* what checkQueryLimit returned in the step just taken
    nevents,     \* history: requests handed to the query pipeline plus
                 \* midnights passed
    answered,    \* history: requests answered with 200, per email and day of
                 \* their recordQuery
    faulted,     \* history: a store operation has failed
    chatHistory, \* req.session.chatHistory as the session store holds it
                 \* for the session of the browser
    settled,     \* the failure with which sendMessage ended in the step just
                 \* taken, if it did
    held,        \* session tokens issued by verifyCode and kept by clients
    decoded,     \* what verifyToken returned in the step just taken
    nticks,      \* history: number of clock steps of the token life cycle
    staticWhitelist, \* AuthService.staticWhitelist, the array of the variant
                 \* without Redis
    listed,      \* what the whitelist operation of the step just taken
                 \* returned
    sendIn,      \* arguments of a GeminiService.sendMessage call and what
                 \* its providers answer
    sendOut,     \* what that call returned
    authToken,   \* req.session.authToken as the session store holds it for
                 \* the session of the browser
    served,      \* the session endpoint that answered in the step just
                 \* taken, its HTTP status, and whether the request had an
                 \* Authorization header
    reports,     \* the stored feedback reports: data/feedback_reports.json,
                 \* oldest first, or the Redis list 'feedback_reports',
                 \* newest first
    fcall,       \* in-flight FeedbackService calls, per task
    freply,      \* what the FeedbackService call that ended in the step
                 \* just taken returned
    nfeedback,   \* history: number of FeedbackService calls started
    collection,  \* the points of the Qdrant collection
    icall,       \* the upsertDocuments call in flight
    ireply,      \* what the upsertDocuments call that ended in the step
                 \* just taken returned
    nruns,       \* history: number of upsertDocuments calls started
    document,    \* the file handed to processFile: its extension and its
                 \* text, a sequence of characters
    chunked,     \* what the chunkText call of the step just taken got and
                 \* returned
    produced     \* what the processFile call of the step just taken
                 \* returned

authVars == <<whitelist, tempCodes, now, acall, reply, ncalls, trail,
              mailed>>
quotaVars == <<userData, redisCounts, redisExpire, today, variant, qcall,
               qreply, checked, nevents, answered, faulted, chatHistory,
               settled>>
tokenVars == <<held, decoded, nticks>>
sendVars == <<sendIn, sendOut>>
sessionVars == <<authToken, served>>
feedbackVars == <<reports, fcall, freply, nfeedback>>
ingestVars == <<collection, icall, ireply, nruns>>
chunkVars == <<document, chunked, produced>>
vars == <<whitelist, admins, tempCodes, now, acall, reply, ncalls, trail,
          mailed,
          userData, redisCounts, redisExpire, today, variant, qcall,
          qreply, checked, nevents, answered, faulted, chatHistory, settled,
          held, decoded, nticks, staticWhitelist, listed, sendIn, sendOut,
          authToken, served, reports, fcall, freply, nfeedback,
          collection, icall, ireply, nruns, document, chunked, produced>>

----------------------------------------------------------------------------
(* Bounds of the model *)

MaxTime == 11
MaxCalls == 3
NumTasks == 2
MaxEvents == 3
MaxTicks == 3
MaxTokens == 2
\* logins of the admin scenario happen up to this tick of the clock
MaxLoginTicks == 1
MaxHistory == 2
MaxFeedback == 4
MaxDocs == 5
MaxRuns == 2
MaxText == 6

----------------------------------------------------------------------------
(* Program constants *)

CodeMin == 100000
CodeMax == 999999
CodeTTL == 10
TokenTTL == 1440
DailyQueryLimit == 2
MaxPromptLen == 2000
MaxStoredQueries == 20
RetentionDays == 30
ReportCap == 2
BatchSize == 2
DefaultChunkSize == 2
DefaultOverlap == 10

AdminId == "ics.learning.ashoka@gmail.com"
UserA == "a@x.edu"
Newcomer == "new@x.edu"
Identities == {AdminId, UserA}
initialWhitelist == {AdminId, UserA}
initialAdmins == {AdminId}

Tasks == 1..NumTasks
Codes == {CodeMin, CodeMax}
Days == 0..MaxEvents

----------------------------------------------------------------------------
(* AuthService *)

NoHash == [alg |-> "none", pre |-> 0]
NoRecord == [code |-> NoHash, expires |-> 0]
NoToken == [email |-> "", role |-> "", iat |-> 0, exp |-> 0, key |-> ""]

\* The session of a request is named by its cookie. The browser sends
\* the cookie of its session; a client that keeps no cookies gets a new
\* session with each request, which no later request names.
Browser == "sid"
NoCookie == "none"
Cookies == {Browser, NoCookie}
NoServed == [op |-> "none", status |-> 0, bearer |-> FALSE]
NoTrail == [ev |-> "none", code |-> 0, prev |-> 0, at |-> 0]
NoMail == [to |-> "", code |-> 0]
NoListed == [op |-> "none", email |-> "", result |-> FALSE]

\* process.env.JWT_SECRET, and a key that is not the service's
JwtSecret == "JWT_SECRET"
OtherKey == "other"

\* bcrypt.hash(code, 10): a digest from which the code is not read back
bcryptHash(code) == [alg |-> "bcrypt", pre |-> code]

\* bcrypt.compare(code, hashed)
bcryptCompare(code, hashed) == hashed.alg = "bcrypt" /\ hashed.pre = code

isEmailWhitelistedAlways(email) == TRUE

isEmailWhitelisted(email) == email \in whitelist

isEmailAdmin(email) == email \in admins

jwtSignNoRole(email, isAdmin) ==
    [email |-> email, role |-> "user", iat |-> now, exp |-> now + TokenTTL,
     key |-> JwtSecret]

\* jwt.sign({email, role}, secret, {expiresIn: '24h'})
jwtSign(email, isAdmin) ==
    [email |-> email,
     role  |-> IF isAdmin THEN "admin" ELSE "user",
     iat   |-> now,
     exp   |-> now + TokenTTL,
     key   |-> JwtSecret]

CodeExpiryLate(t0) == t0 + CodeTTL + 1

\* the expiry written by requestVerification: Date.now() + 10 * 60 * 1000
CodeExpiry(t0) == t0 + CodeTTL

\* the expiry test of verifyCode: Date.now() > storedData.expires
IsExpired(t0, record) == t0 > record.expires

DeleteKeyNoop(obj, key) == obj

\* delete obj[key]
DeleteKey(obj, key) == [k \in (DOMAIN obj) \ {key} |-> obj[k]]

SetKeyIfAbsent(obj, key, value) ==
    [k \in (DOMAIN obj) \cup {key} |-> IF k \in DOMAIN obj THEN obj[k] ELSE value]

\* obj[key] = value
SetKey(obj, key, value) ==
    [k \in (DOMAIN obj) \cup {key} |-> IF k = key THEN value ELSE obj[k]]

IdleCall ==
    [pc |-> "idle", op |-> "none", email |-> "", code |-> 0,
     stored |-> NoRecord, outcome |-> "none", token |-> NoToken,
     pre |-> NoTrail, codes |-> <<>>]

\* a call in flight: its arguments, its locals and, as history of a
\* verifyCode call, the trail of its identity when the call started
AuthCall(pc, op, email, code, stored, outcome) ==
    [pc |-> pc, op |-> op, email |-> email, code |-> code,
     stored |-> stored, outcome |-> outcome, token |-> NoToken,
     pre |-> IF op = "verify" THEN trail[email] ELSE NoTrail,
     codes |-> <<>>]

\* calls are anonymous: a new call takes the first free task
FreeTask(t) ==
    /\ acall[t].pc = "idle"
    /\ \A u \in Tasks : u < t => acall[u].pc # "idle"
    /\ ncalls < MaxCalls

\* requestVerification up to bcrypt.hash: the whitelist answer decides
requestVerification(t, email, code) ==
    /\ FreeTask(t)
    /\ ncalls' = ncalls + 1
    /\ IF ~isEmailWhitelisted(email)
       THEN /\ reply' = AuthCall("idle", "request", email, 0, NoRecord,
                                "NotAuthorized")
            /\ UNCHANGED acall
       ELSE /\ acall' = [acall EXCEPT ![t] =
                  AuthCall("hash", "request", email, code, NoRecord, "pending")]
            /\ reply' = IdleCall
    /\ mailed' = NoMail
    /\ UNCHANGED <<whitelist, admins, tempCodes, now, trail>>
    /\ UNCHANGED quotaVars
    /\ UNCHANGED tokenVars
    /\ UNCHANGED staticWhitelist
    /\ listed' = NoListed
    /\ UNCHANGED sendVars
    /\ UNCHANGED sessionVars
    /\ UNCHANGED <<feedbackVars, ingestVars, chunkVars>>

\* after bcrypt.hash: tempCodes[email] = {code, expires}, then the mail is
\* handed to sendVerificationCode
requestVerificationStore(t) ==
    /\ acall[t].pc = "hash"
    /\ tempCodes' = SetKey(tempCodes, acall[t].email,
                           [code |-> bcryptHash(acall[t].code),
                            expires |-> CodeExpiry(now)])
    /\ trail' = [trail EXCEPT ![acall[t].email] =
                    [ev |-> "stored", code |-> acall[t].code,
                     prev |-> IF acall[t].email \in DOMAIN tempCodes
                              THEN tempCodes[acall[t].email].code.pre ELSE 0,
                     at |-> now]]
    /\ mailed' = [to |-> acall[t].email, code |-> acall[t].code]
    /\ acall' = [acall EXCEPT ![t].pc = "send"]
    /\ reply' = IdleCall
    /\ UNCHANGED <<whitelist, admins, now, ncalls>>
    /\ UNCHANGED quotaVars
    /\ UNCHANGED tokenVars
    /\ UNCHANGED staticWhitelist
    /\ listed' = NoListed
    /\ UNCHANGED sendVars
    /\ UNCHANGED sessionVars
    /\ UNCHANGED <<feedbackVars, ingestVars, chunkVars>>

requestVerificationSentRollback(t, emailSent) ==
    /\ acall[t].pc = "send"
    /\ reply' = [acall[t] EXCEPT !.pc = "idle",
                   !.outcome = IF emailSent THEN "ok" ELSE "DeliveryFailed"]
    /\ acall' = [acall EXCEPT ![t] = IdleCall]
    /\ mailed' = NoMail
    /\ tempCodes' = IF emailSent THEN tempCodes
                    ELSE DeleteKey(tempCodes, acall[t].email)
    /\ UNCHANGED <<whitelist, admins, now, ncalls, trail>>
    /\ UNCHANGED quotaVars
    /\ UNCHANGED tokenVars
    /\ UNCHANGED staticWhitelist
    /\ listed' = NoListed
    /\ UNCHANGED sendVars
    /\ UNCHANGED sessionVars
    /\ UNCHANGED <<feedbackVars, ingestVars, chunkVars>>

\* after sendVerificationCode: emailSent is what the transport reported
requestVerificationSent(t, emailSent) ==
    /\ acall[t].pc = "send"
    /\ reply' = [acall[t] EXCEPT !.pc = "idle",
                   !.outcome = IF emailSent THEN "ok" ELSE "DeliveryFailed"]
    /\ acall' = [acall EXCEPT ![t] = IdleCall]
    /\ mailed' = NoMail
    /\ UNCHANGED <<whitelist, admins, tempCodes, now, ncalls, trail>>
    /\ UNCHANGED quotaVars
    /\ UNCHANGED tokenVars
    /\ UNCHANGED staticWhitelist
    /\ listed' = NoListed
    /\ UNCHANGED sendVars
    /\ UNCHANGED sessionVars
    /\ UNCHANGED <<feedbackVars, ingestVars, chunkVars>>

\* verifyCode up to bcrypt.compare: lookup and expiry check
verifyCode(t, email, code) ==
    /\ FreeTask(t)
    /\ ncalls' = ncalls + 1
    /\ IF email \notin DOMAIN tempCodes
       THEN /\ reply' = AuthCall("idle", "verify", email, code, NoRecord,
                                "NoCodeFound")
            /\ UNCHANGED <<tempCodes, acall, trail>>
       ELSE IF IsExpired(now, tempCodes[email])
       THEN /\ tempCodes' = DeleteKey(tempCodes, email)
            /\ trail' = [trail EXCEPT ![email].ev = "expired"]
            /\ reply' = AuthCall("idle", "verify", email, code,
                                tempCodes[email], "CodeExpired")
            /\ UNCHANGED acall
       ELSE /\ acall' = [acall EXCEPT ![t] =
                  AuthCall("compare", "verify", email, code,
                           tempCodes[email], "pending")]
            /\ reply' = IdleCall
            /\ UNCHANGED <<tempCodes, trail>>
    /\ mailed' = NoMail
    /\ UNCHANGED <<whitelist, admins, now>>
    /\ UNCHANGED quotaVars
    /\ UNCHANGED tokenVars
    /\ UNCHANGED staticWhitelist
    /\ listed' = NoListed
    /\ UNCHANGED sendVars
    /\ UNCHANGED sessionVars
    /\ UNCHANGED <<feedbackVars, ingestVars, chunkVars>>

verifyCodeComparedDeleting(t) ==
    /\ acall[t].pc = "compare"
    /\ tempCodes' = DeleteKey(tempCodes, acall[t].email)
    /\ IF ~bcryptCompare(acall[t].code, acall[t].stored.code)
       THEN /\ reply' = [acall[t] EXCEPT !.pc = "idle",
                                         !.outcome = "InvalidCode"]
            /\ acall' = [acall EXCEPT ![t] = IdleCall]
            /\ trail' = [trail EXCEPT ![acall[t].email].ev =
                            IF @ = "stored" THEN "wrong" ELSE @]
       ELSE /\ trail' = [trail EXCEPT ![acall[t].email].ev = "consumed",
                                      ![acall[t].email].code = acall[t].code]
            /\ acall' = [acall EXCEPT ![t].pc = "role"]
            /\ reply' = IdleCall
    /\ mailed' = NoMail
    /\ UNCHANGED <<whitelist, admins, now, ncalls>>
    /\ UNCHANGED quotaVars
    /\ UNCHANGED tokenVars
    /\ UNCHANGED staticWhitelist
    /\ listed' = NoListed
    /\ UNCHANGED sendVars
    /\ UNCHANGED sessionVars
    /\ UNCHANGED <<feedbackVars, ingestVars, chunkVars>>

\* after bcrypt.compare: reject, or delete the record and ask for the role
verifyCodeCompared(t) ==
    /\ acall[t].pc = "compare"
    /\ IF ~bcryptCompare(acall[t].code, acall[t].stored.code)
       THEN /\ reply' = [acall[t] EXCEPT !.pc = "idle",
                                        !.outcome = "InvalidCode"]
            /\ acall' = [acall EXCEPT ![t] = IdleCall]
            /\ trail' = [trail EXCEPT ![acall[t].email].ev =
                            IF @ = "stored" THEN "wrong" ELSE @]
            /\ UNCHANGED tempCodes
       ELSE /\ tempCodes' = DeleteKey(tempCodes, acall[t].email)
            /\ trail' = [trail EXCEPT ![acall[t].email].ev = "consumed",
                                      ![acall[t].email].code = acall[t].code]
            /\ acall' = [acall EXCEPT ![t].pc = "role"]
            /\ reply' = IdleCall
    /\ mailed' = NoMail
    /\ UNCHANGED <<whitelist, admins, now, ncalls>>
    /\ UNCHANGED quotaVars
    /\ UNCHANGED tokenVars
    /\ UNCHANGED staticWhitelist
    /\ listed' = NoListed
    /\ UNCHANGED sendVars
    /\ UNCHANGED sessionVars
    /\ UNCHANGED <<feedbackVars, ingestVars, chunkVars>>

\* after isEmailAdmin: sign and return the token
verifyCodeSigned(t) ==
    /\ acall[t].pc = "role"
    /\ reply' = [acall[t] EXCEPT !.pc = "idle", !.outcome = "ok",
                   !.token = jwtSign(acall[t].email,
                                     isEmailAdmin(acall[t].email))]
    /\ acall' = [acall EXCEPT ![t] = IdleCall]
    /\ mailed' = NoMail
    /\ UNCHANGED <<whitelist, admins, tempCodes, now, ncalls, trail>>
    /\ UNCHANGED quotaVars
    /\ UNCHANGED tokenVars
    /\ UNCHANGED staticWhitelist
    /\ listed' = NoListed
    /\ UNCHANGED sendVars
    /\ UNCHANGED sessionVars
    /\ UNCHANGED <<feedbackVars, ingestVars, chunkVars>>

\* the message of the Error with which verifyCode ends
errorMessage(outcome) ==
    IF outcome = "NoCodeFound" THEN "No verification code found"
    ELSE IF outcome = "CodeExpired" THEN "Verification code expired"
    ELSE IF outcome = "InvalidCode" THEN "Invalid verification code"
    ELSE ""

\* POST /api/auth/verify, the response to a verifyCode call that returned
\* call: the token, or 400 with the message of the error
verifyResponse(call) ==
    IF call.outcome = "ok"
    THEN [status |-> 200, message |-> "Authentication successful",
          error |-> "", token |-> call.token]
    ELSE [status |-> 400, message |-> "",
          error |-> errorMessage(call.outcome), token |-> NoToken]

\* The AuthService that keeps the codes in data/temp-codes.json reads and
\* writes the file as a whole. requestVerification does both after its
\* await, in one piece, as the actions above do. verifyCode reads the file
\* before bcrypt.compare and writes its copy back after it.

\* jwt.sign({email}, secret, {expiresIn: '24h'}), the token without a role
jwtSignEmail(email) ==
    [email |-> email, role |-> "", iat |-> now, exp |-> now + TokenTTL,
     key |-> JwtSecret]

\* verifyCode of the file-backed service up to bcrypt.compare: the file is
\* read, then lookup and expiry check
verifyCodeFile(t, email, code) ==
    /\ FreeTask(t)
    /\ ncalls' = ncalls + 1
    /\ IF email \notin DOMAIN tempCodes
       THEN /\ reply' = AuthCall("idle", "verify", email, code, NoRecord,
                                "NoCodeFound")
            /\ UNCHANGED <<tempCodes, acall, trail>>
       ELSE IF IsExpired(now, tempCodes[email])
       THEN /\ tempCodes' = DeleteKey(tempCodes, email)
            /\ trail' = [trail EXCEPT ![email].ev = "expired"]
            /\ reply' = AuthCall("idle", "verify", email, code,
                                tempCodes[email], "CodeExpired")
            /\ UNCHANGED acall
       ELSE /\ acall' = [acall EXCEPT ![t] =
                  [AuthCall("compare", "verify", email, code,
                            tempCodes[email], "pending")
                      EXCEPT !.codes = tempCodes]]
            /\ reply' = IdleCall
            /\ UNCHANGED <<tempCodes, trail>>
    /\ mailed' = NoMail
    /\ UNCHANGED <<whitelist, admins, now>>
    /\ UNCHANGED quotaVars
    /\ UNCHANGED tokenVars
    /\ UNCHANGED staticWhitelist
    /\ listed' = NoListed
    /\ UNCHANGED sendVars
    /\ UNCHANGED sessionVars
    /\ UNCHANGED <<feedbackVars, ingestVars, chunkVars>>

\* after bcrypt.compare: reject, or delete the entry from the copy read
\* before the await, write the copy to the file and return the token
verifyCodeComparedFile(t) ==
    /\ acall[t].pc = "compare"
    /\ IF ~bcryptCompare(acall[t].code, acall[t].stored.code)
       THEN /\ reply' = [acall[t] EXCEPT !.pc = "idle", !.codes = <<>>,
                                        !.outcome = "InvalidCode"]
            /\ trail' = [trail EXCEPT ![acall[t].email].ev =
                            IF @ = "stored" THEN "wrong" ELSE @]
            /\ UNCHANGED tempCodes
       ELSE /\ tempCodes' = DeleteKey(acall[t].codes, acall[t].email)
            /\ trail' = [trail EXCEPT ![acall[t].email].ev = "consumed",
                                      ![acall[t].email].code = acall[t].code]
            /\ reply' = [acall[t] EXCEPT !.pc = "idle", !.codes = <<>>,
                           !.outcome = "ok",
                           !.token = jwtSignEmail(acall[t].email)]
    /\ acall' = [acall EXCEPT ![t] = IdleCall]
    /\ mailed' = NoMail
    /\ UNCHANGED <<whitelist, admins, now, ncalls>>
    /\ UNCHANGED quotaVars
    /\ UNCHANGED tokenVars
    /\ UNCHANGED staticWhitelist
    /\ listed' = NoListed
    /\ UNCHANGED sendVars
    /\ UNCHANGED sessionVars
    /\ UNCHANGED <<feedbackVars, ingestVars, chunkVars>>

\* SADD key member: the set with the member, and 1 when it was new
SADD(set, member) == [set |-> set \cup {member},
                      result |-> IF member \in set THEN 0 ELSE 1]

SREMKeeping(set, member) == [set |-> set,
                             result |-> IF member \in set THEN 1 ELSE 0]

\* SREM key member: the set without the member, and 1 when it was there
SREM(set, member) == [set |-> set \ {member},
                      result |-> IF member \in set THEN 1 ELSE 0]

\* addToWhitelist, whitelist in Redis
addToWhitelist(email) ==
    /\ ncalls < MaxCalls
    /\ whitelist' = SADD(whitelist, email).set
    /\ listed' = [op |-> "add", email |-> email,
                  result |-> SADD(whitelist, email).result = 1]
    /\ ncalls' = ncalls + 1
    /\ reply' = IdleCall
    /\ mailed' = NoMail
    /\ UNCHANGED <<admins, tempCodes, now, acall, trail>>
    /\ UNCHANGED quotaVars
    /\ UNCHANGED tokenVars
    /\ UNCHANGED staticWhitelist
    /\ UNCHANGED sendVars
    /\ UNCHANGED sessionVars
    /\ UNCHANGED <<feedbackVars, ingestVars, chunkVars>>

\* removeFromWhitelist, whitelist in Redis
removeFromWhitelist(email) ==
    /\ ncalls < MaxCalls
    /\ whitelist' = SREM(whitelist, email).set
    /\ listed' = [op |-> "remove", email |-> email,
                  result |-> SREM(whitelist, email).result = 1]
    /\ ncalls' = ncalls + 1
    /\ reply' = IdleCall
    /\ mailed' = NoMail
    /\ UNCHANGED <<admins, tempCodes, now, acall, trail>>
    /\ UNCHANGED quotaVars
    /\ UNCHANGED tokenVars
    /\ UNCHANGED staticWhitelist
    /\ UNCHANGED sendVars
    /\ UNCHANGED sessionVars
    /\ UNCHANGED <<feedbackVars, ingestVars, chunkVars>>

\* Array.prototype.includes, indexOf (from 0, -1 when absent), push and
\* splice(index, 1)
includes(arr, x) == \E i \in DOMAIN arr : arr[i] = x

indexOf(arr, x) ==
    IF includes(arr, x)
    THEN (CHOOSE i \in DOMAIN arr :
             arr[i] = x /\ \A j \in DOMAIN arr : arr[j] = x => i <= j) - 1
    ELSE -1

push(arr, x) == Append(arr, x)

splice(arr, index) ==
    [i \in 1..(Len(arr) - 1) |-> IF i <= index THEN arr[i] ELSE arr[i + 1]]

\* isEmailWhitelisted, whitelist in the array
isEmailWhitelistedStatic(email) == includes(staticWhitelist, email)

\* addToWhitelist, whitelist in the array
addToWhitelistStatic(email) ==
    /\ ncalls < MaxCalls
    /\ ncalls' = ncalls + 1
    /\ IF ~includes(staticWhitelist, email)
       THEN /\ staticWhitelist' = push(staticWhitelist, email)
            /\ listed' = [op |-> "addStatic", email |-> email, result |-> TRUE]
       ELSE /\ staticWhitelist' = staticWhitelist
            /\ listed' = [op |-> "addStatic", email |-> email, result |-> FALSE]
    /\ reply' = IdleCall
    /\ mailed' = NoMail
    /\ UNCHANGED <<whitelist, admins, tempCodes, now, acall, trail>>
    /\ UNCHANGED quotaVars
    /\ UNCHANGED tokenVars
    /\ UNCHANGED sendVars
    /\ UNCHANGED sessionVars
    /\ UNCHANGED <<feedbackVars, ingestVars, chunkVars>>

\* removeFromWhitelist, whitelist in the array
removeFromWhitelistStatic(email) ==
    /\ ncalls < MaxCalls
    /\ ncalls' = ncalls + 1
    /\ IF indexOf(staticWhitelist, email) > -1
       THEN /\ staticWhitelist' =
                 splice(staticWhitelist, indexOf(staticWhitelist, email))
            /\ listed' = [op |-> "removeStatic", email |-> email,
                          result |-> TRUE]
       ELSE /\ staticWhitelist' = staticWhitelist
            /\ listed' = [op |-> "removeStatic", email |-> email,
                          result |-> FALSE]
    /\ reply' = IdleCall
    /\ mailed' = NoMail
    /\ UNCHANGED <<whitelist, admins, tempCodes, now, acall, trail>>
    /\ UNCHANGED quotaVars
    /\ UNCHANGED tokenVars
    /\ UNCHANGED sendVars
    /\ UNCHANGED sessionVars
    /\ UNCHANGED <<feedbackVars, ingestVars, chunkVars>>

\* the wall clock moves on, to the last minute of a code stored now or
\* past it
Tick(d) ==
    /\ now + d <= MaxTime
    /\ now' = now + d
    /\ reply' = IdleCall
    /\ mailed' = NoMail
    /\ UNCHANGED <<whitelist, admins, tempCodes, acall, ncalls, trail>>
    /\ UNCHANGED quotaVars
    /\ UNCHANGED tokenVars
    /\ UNCHANGED staticWhitelist
    /\ listed' = NoListed
    /\ UNCHANGED sendVars
    /\ UNCHANGED sessionVars
    /\ UNCHANGED <<feedbackVars, ingestVars, chunkVars>>

----------------------------------------------------------------------------
(* Session tokens *)

NoDecoded == [token |-> NoToken, outcome |-> "none", claims |-> NoToken]

\* tokens a client can make up without the service's key
Forged ==
    {[email |-> e, role |-> "admin", iat |-> now, exp |-> now + TokenTTL,
      key |-> OtherKey] : e \in Identities}

jwtVerifyIgnoringExpiry(token, key, t0) == token.key = key

\* jwt.verify(token, secret): the signature, then the exp claim, which is
\* over once the clock has reached it
jwtVerify(token, key, t0) == token.key = key /\ ~(t0 >= token.exp)

\* POST /api/auth/verify at the end of a successful verifyCode: the token
\* is signed, put into the session of the request and handed to the client
TokenIssued(cookie, email) ==
    /\ Cardinality(held \cup {jwtSign(email, isEmailAdmin(email))})
          <= MaxTokens
    /\ held' = held \cup {jwtSign(email, isEmailAdmin(email))}
    /\ authToken' = IF cookie = Browser
                    THEN jwtSign(email, isEmailAdmin(email)) ELSE authToken
    /\ served' = [op |-> "verify", status |-> 200, bearer |-> FALSE]
    /\ UNCHANGED <<feedbackVars, ingestVars, chunkVars>>
    /\ decoded' = NoDecoded
    /\ UNCHANGED nticks
    /\ UNCHANGED <<admins, authVars>>
    /\ UNCHANGED quotaVars
    /\ UNCHANGED staticWhitelist
    /\ listed' = NoListed
    /\ UNCHANGED sendVars

\* AuthService.verifyToken: the decoded claims, or 'Invalid token'
verifyToken(token) ==
    /\ decoded' = IF jwtVerify(token, JwtSecret, now)
                  THEN [token |-> token, outcome |-> "ok", claims |-> token]
                  ELSE [token |-> token, outcome |-> "InvalidToken",
                        claims |-> NoToken]
    /\ UNCHANGED <<held, nticks>>
    /\ UNCHANGED <<admins, authVars>>
    /\ UNCHANGED quotaVars
    /\ UNCHANGED staticWhitelist
    /\ listed' = NoListed
    /\ UNCHANGED sendVars
    /\ UNCHANGED sessionVars
    /\ UNCHANGED <<feedbackVars, ingestVars, chunkVars>>

\* the wall clock moves on by a minute, or by a minute less than the
\* lifetime of a token
TokenTick(d) ==
    /\ nticks < MaxTicks
    /\ nticks' = nticks + 1
    /\ now' = now + d
    /\ decoded' = NoDecoded
    /\ UNCHANGED held
    /\ UNCHANGED <<whitelist, admins, tempCodes, acall, reply, ncalls, trail,
                   mailed>>
    /\ UNCHANGED quotaVars
    /\ UNCHANGED staticWhitelist
    /\ listed' = NoListed
    /\ UNCHANGED sendVars
    /\ UNCHANGED sessionVars
    /\ UNCHANGED <<feedbackVars, ingestVars, chunkVars>>

----------------------------------------------------------------------------
(* GeminiService.sendMessage *)

\* A text is the sequence of its pieces, and joining texts is \o: questions
\* of a student, answers of the model, and the chunks of course material
\* the search returns (one of them blank).
Questions == {<<"q1">>, <<"q2">>}
Answers == {<<"a1">>, <<"a2">>}
Chunks == {"chunk", " "}

UserTurn(text) == [role |-> "user", text |-> text]
ModelTurn(text) == [role |-> "model", text |-> text]
Turns == {UserTurn(q) : q \in Questions} \cup {ModelTurn(a) : a \in Answers}

\* sequences over S of length at most n
SeqUpTo(S, n) == UNION {[1..k -> S] : k \in 0..n}

\* String.prototype.trim on the texts of the model
trim(text) == IF text = " " THEN "" ELSE text

\* contextResults.map(r => r.text?.trim()).filter(Boolean)
cleanedContextTexts(contextResults) ==
    SelectSeq([i \in DOMAIN contextResults |-> trim(contextResults[i])],
              LAMBDA text : text # "")

\* the message sent to the chat: the question, behind the context when
\* there is one
fullPrompt(prompt, contextResults) ==
    IF Len(cleanedContextTexts(contextResults)) > 0
    THEN <<"[BACKGROUND CONTEXT]">> \o cleanedContextTexts(contextResults)
            \o <<"[END BACKGROUND CONTEXT]",
                 "Now here is the student's question:">> \o prompt
    ELSE prompt

NoSend == [response |-> <<>>, updatedHistory |-> <<>>, contextUsed |-> FALSE,
           contextChunks |-> 0, sent |-> <<>>]

sendMessageStoringSent(prompt, sessionHistory, contextResults, responseText) ==
    [response |-> responseText,
     updatedHistory |->
         sessionHistory \o <<UserTurn(fullPrompt(prompt, contextResults)),
                             ModelTurn(responseText)>>,
     contextUsed |-> Len(cleanedContextTexts(contextResults)) > 0,
     contextChunks |-> Len(cleanedContextTexts(contextResults)),
     sent |-> fullPrompt(prompt, contextResults)]

\* what a successful sendMessage returns, with the message it sent to the
\* chat as history
sendMessage(prompt, sessionHistory, contextResults, responseText) ==
    [response |-> responseText,
     updatedHistory |->
         sessionHistory \o <<UserTurn(prompt), ModelTurn(responseText)>>,
     contextUsed |-> Len(cleanedContextTexts(contextResults)) > 0,
     contextChunks |-> Len(cleanedContextTexts(contextResults)),
     sent |-> fullPrompt(prompt, contextResults)]

\* a call of sendMessage in which every provider answers
SendSucceeds ==
    /\ sendOut = NoSend
    /\ sendOut' = sendMessage(sendIn.prompt, sendIn.history, sendIn.context,
                              sendIn.response)
    /\ UNCHANGED sendIn
    /\ UNCHANGED <<admins, authVars>>
    /\ UNCHANGED quotaVars
    /\ UNCHANGED tokenVars
    /\ UNCHANGED <<staticWhitelist, listed>>
    /\ UNCHANGED sessionVars
    /\ UNCHANGED <<feedbackVars, ingestVars, chunkVars>>

----------------------------------------------------------------------------
(* UserService and the /api/query handler *)

EmptyObject == [k \in {} |-> 0]
NewDay == [count |-> 0, logged |-> 0]
NoCheck == [email |-> "", allowed |-> FALSE, remaining |-> "", used |-> "",
            limit |-> "", isAdmin |-> FALSE, error |-> FALSE, loaded |-> FALSE]
NoPrompt == [len |-> 0, blank |-> TRUE, flagged |-> FALSE]
IdleQuery == [pc |-> "idle", email |-> "", prompt |-> NoPrompt,
              data |-> EmptyObject, key |-> 0, read |-> TRUE,
              cookie |-> NoCookie, token |-> NoToken, history |-> <<>>]

\* request bodies: no text, a text of the largest accepted length, a longer
\* one, one that matches a pattern of the content filter
Prompts ==
    {[len |-> 0, blank |-> TRUE, flagged |-> FALSE],
     [len |-> MaxPromptLen, blank |-> FALSE, flagged |-> FALSE],
     [len |-> MaxPromptLen + 1, blank |-> FALSE, flagged |-> FALSE],
     [len |-> 5, blank |-> FALSE, flagged |-> TRUE]}

\* loadUserData: the parsed file, {} when it cannot be read
loadUserData(ok) == IF ok THEN userData ELSE EmptyObject

\* getUserQueries: the loaded data with today's entry of email created
getUserQueries(data, email, day) ==
    LET d1 == IF email \in DOMAIN data THEN data
              ELSE SetKey(data, email, EmptyObject)
    IN  IF day \in DOMAIN d1[email] THEN d1
        ELSE SetKey(d1, email, SetKey(d1[email], day, NewDay))

\* the counter of (email, day) in data, 0 when there is none
StoredCount(data, email, day) ==
    IF email \in DOMAIN data /\ day \in DOMAIN data[email]
    THEN data[email][day].count ELSE 0

Max(a, b) == IF a > b THEN a ELSE b

adminResult(email) ==
    [email |-> email, allowed |-> TRUE, remaining |-> "unlimited",
     used |-> "undefined", limit |-> "undefined", isAdmin |-> TRUE,
     error |-> FALSE, loaded |-> FALSE]

failOpenResult(email) ==
    [email |-> email, allowed |-> TRUE, remaining |-> "unknown",
     used |-> "undefined", limit |-> "undefined", isAdmin |-> FALSE,
     error |-> TRUE, loaded |-> FALSE]

limitResultInclusive(email, used, ok) ==
    [email |-> email,
     allowed |-> used <= DailyQueryLimit,
     remaining |-> Max(0, DailyQueryLimit - used),
     used |-> used,
     limit |-> DailyQueryLimit,
     isAdmin |-> FALSE, error |-> FALSE, loaded |-> ok]

\* the answer of checkQueryLimit for a non-admin whose counter reads used
limitResult(email, used, ok) ==
    [email |-> email,
     allowed |-> used < DailyQueryLimit,
     remaining |-> Max(0, DailyQueryLimit - used),
     used |-> used,
     limit |-> DailyQueryLimit,
     isAdmin |-> FALSE, error |-> FALSE, loaded |-> ok]

\* UserService.checkQueryLimit, file-backed
checkQueryLimit(email, ok) ==
    IF email \in admins THEN adminResult(email)
    ELSE limitResult(email,
            getUserQueries(loadUserData(ok), email, today)[email][today].count,
            ok)

\* UserService.isAdmin is async: called without await it yields a promise
isAdminPromise(email) == [promise |-> "pending", value |-> isEmailAdmin(email)]

\* the truth value JavaScript gives to an object in a condition
ToBoolean(object) == TRUE

RedisCount(email, day) ==
    IF email \in DOMAIN redisCounts /\ day \in DOMAIN redisCounts[email]
    THEN redisCounts[email][day] ELSE 0

\* UserService.checkQueryLimit, Redis-backed
checkQueryLimitRedis(email, ok) ==
    IF ToBoolean(isAdminPromise(email)) THEN adminResult(email)
    ELSE IF ~ok THEN failOpenResult(email)
    ELSE limitResult(email, RedisCount(email, today), ok)

recordIntoCountingAll(data, email, day) ==
    LET d == getUserQueries(data, email, day)
    IN  SetKey(d, email, SetKey(d[email], day,
          [count |-> d[email][day].count + 1,
           logged |-> IF d[email][day].logged + 1 > MaxStoredQueries
                      THEN MaxStoredQueries ELSE d[email][day].logged + 1]))

\* recordQuery between load and save: count++ unless admin, the query is
\* appended to the day's log, of which the last 20 entries are kept
recordInto(data, email, day) ==
    LET d == getUserQueries(data, email, day)
    IN  SetKey(d, email, SetKey(d[email], day,
          [count |-> IF email \in admins THEN d[email][day].count
                     ELSE d[email][day].count + 1,
           logged |-> IF d[email][day].logged + 1 > MaxStoredQueries
                      THEN MaxStoredQueries ELSE d[email][day].logged + 1]))

\* cleanupOldData(daysToKeep) between load and save, run on day: the
\* per-day records whose key is before the cutoff are deleted, then the
\* identities left without a record
cleanupOldData(data, day, daysToKeep) ==
    LET cutoffKey == day - daysToKeep
        kept(userHistory) ==
            [dateKey \in {k \in DOMAIN userHistory : ~(k < cutoffKey)} |->
                userHistory[dateKey]]
    IN  [email \in {e \in DOMAIN data : DOMAIN kept(data[e]) # {}} |->
            kept(data[email])]

\* whether the quota operations reach the store for email, where they can
\* fail: not for an admin, and the Redis-backed service takes everyone for an
\* admin
ReadsStore(email) ==
    IF variant = "file" THEN email \notin admins
    ELSE ~ToBoolean(isAdminPromise(email))

Bump(f, email, day) == [f EXCEPT ![email][day] = @ + 1]

\* how a sendMessage call can end: with a response, or with the error of
\* the embedding call, of the vector search or of the chat call
SendOutcomes == {"ok", "embedding", "retrieval", "chat"}
NoSettled == [outcome |-> "none", calls |-> <<>>]

\* the calls sendMessage makes to its providers until it ends with outcome:
\* generateEmbeddings, searchSimilarTexts and sendMessage each hand the
\* error they catch to their caller
providerCalls(outcome) ==
    IF outcome = "embedding" THEN <<"embedContent">>
    ELSE IF outcome = "retrieval" THEN <<"embedContent", "search">>
    ELSE <<"embedContent", "search", "sendMessage">>

\* the text of an accepted request body
promptText(prompt) == IF prompt.blank THEN <<>> ELSE <<"q1">>

\* requireAuth takes the token of the session before the one of the
\* Authorization header: a request on a session that holds a token is made
\* as the identity of that token, any other as the one of its bearer token
AuthenticatedAs(cookie, email) ==
    (cookie = Browser /\ authToken # NoToken) =>
        (email = authToken.email /\ jwtVerify(authToken, JwtSecret, now))

\* the body the content filter answers with
RedirectMessage == "I can only help with learning ICS concepts. ..."

NoRejection == [status |-> 0, error |-> "", message |-> ""]

\* the response with which the handler returns before sendMessage: the
\* tests of the quota, of the empty prompt, of the length and of the
\* content filter, in this order
rejection(allowed, prompt) ==
    IF ~allowed
    THEN [status |-> 429, message |-> "",
          error |-> "Daily query limit reached. Please try again tomorrow."]
    ELSE IF prompt.blank
    THEN [status |-> 400, message |-> "", error |-> "Prompt cannot be empty"]
    ELSE IF prompt.len > MaxPromptLen
    THEN [status |-> 400, message |-> "",
          error |-> "Prompt too long. Please keep it under 2000 characters."]
    ELSE IF prompt.flagged
    THEN [status |-> 403, message |-> RedirectMessage, error |-> ""]
    ELSE NoRejection

FreeQuery(t) ==
    /\ qcall[t].pc = "idle"
    /\ \A u \in Tasks : u < t => qcall[u].pc # "idle"

QueryStartUnfiltered(t, cookie, email, prompt, ok) ==
    /\ FreeQuery(t)
    /\ AuthenticatedAs(cookie, email)
    /\ ok \/ ReadsStore(email)
    /\ checked' = IF variant = "file" THEN checkQueryLimit(email, ok)
                  ELSE checkQueryLimitRedis(email, ok)
    /\ faulted' = (faulted \/ ~ok)
    /\ IF ~checked'.allowed
       THEN qreply' = 429 /\ UNCHANGED <<qcall, nevents>>
       ELSE IF prompt.blank
       THEN qreply' = 400 /\ UNCHANGED <<qcall, nevents>>
       ELSE IF prompt.len > MaxPromptLen
       THEN qreply' = 400 /\ UNCHANGED <<qcall, nevents>>
       ELSE /\ nevents < MaxEvents
            /\ nevents' = nevents + 1
            /\ qreply' = 0
            /\ qcall' = [qcall EXCEPT ![t] =
                  [pc |-> "gen", email |-> email, prompt |-> prompt,
                   data |-> EmptyObject, key |-> 0, read |-> TRUE,
                   cookie |-> cookie,
                   token |-> IF cookie = Browser THEN authToken ELSE NoToken,
                   history |-> IF cookie = Browser THEN chatHistory
                               ELSE <<>>]]
    /\ UNCHANGED <<userData, redisCounts, redisExpire, today, variant,
                   answered>>
    /\ UNCHANGED <<admins, authVars>>
    /\ UNCHANGED tokenVars
    /\ UNCHANGED staticWhitelist
    /\ listed' = NoListed
    /\ UNCHANGED chatHistory
    /\ settled' = NoSettled
    /\ UNCHANGED sendVars
    /\ UNCHANGED authToken
    /\ served' = NoServed
    /\ UNCHANGED <<feedbackVars, ingestVars, chunkVars>>

QueryStartSaving(t, cookie, email, prompt, ok) ==
    /\ FreeQuery(t)
    /\ AuthenticatedAs(cookie, email)
    /\ ok \/ ReadsStore(email)
    /\ checked' = IF variant = "file" THEN checkQueryLimit(email, ok)
                  ELSE checkQueryLimitRedis(email, ok)
    /\ faulted' = (faulted \/ ~ok)
    /\ IF ~checked'.allowed
       THEN qreply' = 429 /\ UNCHANGED <<qcall, nevents>>
       ELSE IF prompt.blank
       THEN qreply' = 400 /\ UNCHANGED <<qcall, nevents>>
       ELSE IF prompt.len > MaxPromptLen
       THEN qreply' = 400 /\ UNCHANGED <<qcall, nevents>>
       ELSE IF prompt.flagged
       THEN qreply' = 403 /\ UNCHANGED <<qcall, nevents>>
       ELSE /\ nevents < MaxEvents
            /\ nevents' = nevents + 1
            /\ qreply' = 0
            /\ qcall' = [qcall EXCEPT ![t] =
                  [pc |-> "gen", email |-> email, prompt |-> prompt,
                   data |-> EmptyObject, key |-> 0, read |-> TRUE,
                   cookie |-> cookie,
                   token |-> IF cookie = Browser THEN authToken ELSE NoToken,
                   history |-> IF cookie = Browser THEN chatHistory
                               ELSE <<>>]]
    /\ userData' = IF variant = "file" /\ email \notin admins
                   THEN getUserQueries(loadUserData(ok), email, today)
                   ELSE userData
    /\ UNCHANGED <<redisCounts, redisExpire, today, variant, answered>>
    /\ UNCHANGED <<admins, authVars>>
    /\ UNCHANGED tokenVars
    /\ UNCHANGED staticWhitelist
    /\ listed' = NoListed
    /\ UNCHANGED chatHistory
    /\ settled' = NoSettled
    /\ UNCHANGED sendVars
    /\ UNCHANGED authToken
    /\ served' = NoServed
    /\ UNCHANGED <<feedbackVars, ingestVars, chunkVars>>

\* POST /api/query up to sendMessage: the session of the request is the
\* stored one, then quota check and validation of the prompt
QueryStart(t, cookie, email, prompt, ok) ==
    /\ FreeQuery(t)
    /\ AuthenticatedAs(cookie, email)
    /\ ok \/ ReadsStore(email)
    /\ checked' = IF variant = "file" THEN checkQueryLimit(email, ok)
                  ELSE checkQueryLimitRedis(email, ok)
    /\ faulted' = (faulted \/ ~ok)
    /\ IF ~checked'.allowed
       THEN qreply' = 429 /\ UNCHANGED <<qcall, nevents>>
       ELSE IF prompt.blank
       THEN qreply' = 400 /\ UNCHANGED <<qcall, nevents>>
       ELSE IF prompt.len > MaxPromptLen
       THEN qreply' = 400 /\ UNCHANGED <<qcall, nevents>>
       ELSE IF prompt.flagged
       THEN qreply' = 403 /\ UNCHANGED <<qcall, nevents>>
       ELSE /\ nevents < MaxEvents
            /\ nevents' = nevents + 1
            /\ qreply' = 0
            /\ qcall' = [qcall EXCEPT ![t] =
                  [pc |-> "gen", email |-> email, prompt |-> prompt,
                   data |-> EmptyObject, key |-> 0, read |-> TRUE,
                   cookie |-> cookie,
                   token |-> IF cookie = Browser THEN authToken ELSE NoToken,
                   history |-> IF cookie = Browser THEN chatHistory
                               ELSE <<>>]]
    /\ UNCHANGED <<userData, redisCounts, redisExpire, today, variant,
                   answered>>
    /\ UNCHANGED <<admins, authVars>>
    /\ UNCHANGED tokenVars
    /\ UNCHANGED staticWhitelist
    /\ listed' = NoListed
    /\ UNCHANGED chatHistory
    /\ settled' = NoSettled
    /\ UNCHANGED sendVars
    /\ UNCHANGED authToken
    /\ served' = NoServed
    /\ UNCHANGED <<feedbackVars, ingestVars, chunkVars>>

QueryGeneratedKeepingTurn(t, outcome, contextResults, responseText) ==
    /\ qcall[t].pc = "gen"
    /\ settled' = IF outcome = "ok" THEN NoSettled
                  ELSE [outcome |-> outcome, calls |-> providerCalls(outcome)]
    /\ IF outcome = "ok"
       THEN /\ qreply' = 0
            /\ qcall' = [qcall EXCEPT ![t].pc = "record",
                  ![t].history =
                      sendMessage(promptText(qcall[t].prompt),
                                  qcall[t].history, contextResults,
                                  responseText).updatedHistory]
            /\ UNCHANGED chatHistory
       ELSE /\ qreply' = 500
            /\ qcall' = [qcall EXCEPT ![t] = IdleQuery]
            /\ chatHistory' =
                  IF qcall[t].cookie = Browser
                  THEN qcall[t].history
                          \o <<UserTurn(promptText(qcall[t].prompt))>>
                  ELSE chatHistory
    /\ checked' = NoCheck
    /\ UNCHANGED <<userData, redisCounts, redisExpire, today, variant,
                   nevents, answered, faulted>>
    /\ UNCHANGED <<admins, authVars>>
    /\ UNCHANGED tokenVars
    /\ UNCHANGED staticWhitelist
    /\ listed' = NoListed
    /\ UNCHANGED sendVars
    /\ UNCHANGED authToken
    /\ served' = NoServed
    /\ UNCHANGED <<feedbackVars, ingestVars, chunkVars>>

\* sendMessage has settled. With a response, the handler puts the updated
\* history into the session of the request and calls recordQuery; with an
\* error it answers 500, and the session, not modified, is not saved.
QueryGenerated(t, outcome, contextResults, responseText) ==
    /\ qcall[t].pc = "gen"
    /\ settled' = IF outcome = "ok" THEN NoSettled
                  ELSE [outcome |-> outcome, calls |-> providerCalls(outcome)]
    /\ IF outcome = "ok"
       THEN /\ qreply' = 0
            /\ qcall' = [qcall EXCEPT ![t].pc = "record",
                  ![t].history =
                      sendMessage(promptText(qcall[t].prompt),
                                  qcall[t].history, contextResults,
                                  responseText).updatedHistory]
       ELSE /\ qreply' = 500
            /\ qcall' = [qcall EXCEPT ![t] = IdleQuery]
    /\ checked' = NoCheck
    /\ UNCHANGED <<userData, redisCounts, redisExpire, today, variant,
                   nevents, answered, faulted, chatHistory>>
    /\ UNCHANGED <<admins, authVars>>
    /\ UNCHANGED tokenVars
    /\ UNCHANGED staticWhitelist
    /\ listed' = NoListed
    /\ UNCHANGED sendVars
    /\ UNCHANGED authToken
    /\ served' = NoServed
    /\ UNCHANGED <<feedbackVars, ingestVars, chunkVars>>

\* recordQuery, file-backed, after loadUserData: the new content is computed
\* from what was read and handed to saveUserData; read tells whether the call
\* got the stored records (also when there were none to get)
RecordLoaded(t, ok) ==
    /\ qcall[t].pc = "record"
    /\ variant = "file"
    /\ qcall' = [qcall EXCEPT ![t].pc = "save", ![t].key = today,
                    ![t].read = (ok \/ userData = EmptyObject),
                    ![t].data = recordInto(loadUserData(ok), qcall[t].email,
                                           today)]
    /\ faulted' = (faulted \/ ~ok)
    /\ qreply' = 0
    /\ checked' = NoCheck
    /\ UNCHANGED <<userData, redisCounts, redisExpire, today, variant,
                   nevents, answered>>
    /\ UNCHANGED <<admins, authVars>>
    /\ UNCHANGED tokenVars
    /\ UNCHANGED staticWhitelist
    /\ listed' = NoListed
    /\ UNCHANGED chatHistory
    /\ settled' = NoSettled
    /\ UNCHANGED sendVars
    /\ UNCHANGED authToken
    /\ served' = NoServed
    /\ UNCHANGED <<feedbackVars, ingestVars, chunkVars>>

RecordSavedAppending(t, ok) ==
    /\ qcall[t].pc = "save"
    /\ userData' = IF ok THEN qcall[t].data ELSE userData
    /\ faulted' = (faulted \/ ~ok)
    /\ answered' = Bump(answered, qcall[t].email, qcall[t].key)
    /\ qreply' = 200
    /\ qcall' = [qcall EXCEPT ![t] = IdleQuery]
    /\ checked' = NoCheck
    /\ UNCHANGED <<redisCounts, redisExpire, today, variant, nevents>>
    /\ UNCHANGED <<admins, authVars>>
    /\ UNCHANGED tokenVars
    /\ UNCHANGED staticWhitelist
    /\ listed' = NoListed
    /\ chatHistory' = IF qcall[t].cookie = Browser
                      THEN chatHistory
                              \o SubSeq(qcall[t].history,
                                        Len(qcall[t].history) - 1,
                                        Len(qcall[t].history))
                      ELSE chatHistory
    /\ settled' = NoSettled
    /\ UNCHANGED sendVars
    /\ authToken' = IF qcall[t].cookie = Browser THEN qcall[t].token
                    ELSE authToken
    /\ served' = NoServed
    /\ UNCHANGED <<feedbackVars, ingestVars, chunkVars>>

\* recordQuery, file-backed, after saveUserData: a failed write is logged
\* and swallowed; the handler answers with the response
RecordSaved(t, ok) ==
    /\ qcall[t].pc = "save"
    /\ userData' = IF ok THEN qcall[t].data ELSE userData
    /\ faulted' = (faulted \/ ~ok)
    /\ answered' = Bump(answered, qcall[t].email, qcall[t].key)
    /\ qreply' = 200
    /\ qcall' = [qcall EXCEPT ![t] = IdleQuery]
    /\ checked' = NoCheck
    /\ UNCHANGED <<redisCounts, redisExpire, today, variant, nevents>>
    /\ UNCHANGED <<admins, authVars>>
    /\ UNCHANGED tokenVars
    /\ UNCHANGED staticWhitelist
    /\ listed' = NoListed
    /\ chatHistory' = IF qcall[t].cookie = Browser THEN qcall[t].history
                      ELSE chatHistory
    /\ settled' = NoSettled
    /\ UNCHANGED sendVars
    /\ authToken' = IF qcall[t].cookie = Browser THEN qcall[t].token
                    ELSE authToken
    /\ served' = NoServed
    /\ UNCHANGED <<feedbackVars, ingestVars, chunkVars>>

\* recordQuery, Redis-backed: returns at once for what it takes for an admin,
\* otherwise HINCRBY and EXPIRE; the handler answers with the response
RecordRedis(t, ok) ==
    /\ qcall[t].pc = "record"
    /\ variant = "redis"
    /\ ok \/ ReadsStore(qcall[t].email)
    /\ IF ToBoolean(isAdminPromise(qcall[t].email))
       THEN UNCHANGED <<redisCounts, redisExpire, faulted>>
       ELSE IF ~ok
       THEN faulted' = TRUE /\ UNCHANGED <<redisCounts, redisExpire>>
       ELSE /\ redisCounts' =
                 SetKey(redisCounts, qcall[t].email,
                    LET h == IF qcall[t].email \in DOMAIN redisCounts
                             THEN redisCounts[qcall[t].email] ELSE EmptyObject
                    IN  SetKey(h, today, RedisCount(qcall[t].email, today) + 1))
            /\ redisExpire' = SetKey(redisExpire, qcall[t].email,
                                     today + RetentionDays)
            /\ UNCHANGED faulted
    /\ answered' = Bump(answered, qcall[t].email, today)
    /\ qreply' = 200
    /\ qcall' = [qcall EXCEPT ![t] = IdleQuery]
    /\ checked' = NoCheck
    /\ UNCHANGED <<userData, today, variant, nevents>>
    /\ UNCHANGED <<admins, authVars>>
    /\ UNCHANGED tokenVars
    /\ UNCHANGED staticWhitelist
    /\ listed' = NoListed
    /\ chatHistory' = IF qcall[t].cookie = Browser THEN qcall[t].history
                      ELSE chatHistory
    /\ settled' = NoSettled
    /\ UNCHANGED sendVars
    /\ authToken' = IF qcall[t].cookie = Browser THEN qcall[t].token
                    ELSE authToken
    /\ served' = NoServed
    /\ UNCHANGED <<feedbackVars, ingestVars, chunkVars>>

\* midnight UTC
NextDay ==
    /\ nevents < MaxEvents
    /\ nevents' = nevents + 1
    /\ today' = today + 1
    /\ qreply' = 0
    /\ checked' = NoCheck
    /\ UNCHANGED <<userData, redisCounts, redisExpire, variant, qcall,
                   answered, faulted>>
    /\ UNCHANGED <<admins, authVars>>
    /\ UNCHANGED tokenVars
    /\ UNCHANGED staticWhitelist
    /\ listed' = NoListed
    /\ UNCHANGED chatHistory
    /\ settled' = NoSettled
    /\ UNCHANGED sendVars
    /\ UNCHANGED authToken
    /\ served' = NoServed
    /\ UNCHANGED <<feedbackVars, ingestVars, chunkVars>>

----------------------------------------------------------------------------
(* The session endpoints *)

\* a requireAuth that looks the decoded identity up in the whitelist again
requireAuthRevoking(cookie, bearer) ==
    LET token == IF cookie = Browser /\ authToken # NoToken THEN authToken
                 ELSE bearer
    IN  IF token = NoToken THEN [status |-> 401, user |-> NoToken]
        ELSE IF jwtVerify(token, JwtSecret, now) /\ token.email \in whitelist
        THEN [status |-> 200, user |-> token]
        ELSE [status |-> 401, user |-> NoToken]

\* requireAuth: the token of the session, else the bearer token of the
\* Authorization header; 401 without a token or with one that verifyToken
\* refuses, otherwise the request goes on as the decoded user
requireAuth(cookie, bearer) ==
    LET token == IF cookie = Browser /\ authToken # NoToken THEN authToken
                 ELSE bearer
    IN  IF token = NoToken THEN [status |-> 401, user |-> NoToken]
        ELSE IF jwtVerify(token, JwtSecret, now)
        THEN [status |-> 200, user |-> token]
        ELSE [status |-> 401, user |-> NoToken]

\* what the session endpoints leave alone: the handler of /api/query and
\* the stores of the quota; the results of the step before are over
SessionFrame ==
    /\ qreply' = 0
    /\ checked' = NoCheck
    /\ settled' = NoSettled
    /\ UNCHANGED <<userData, redisCounts, redisExpire, today, variant, qcall,
                   nevents, answered, faulted>>
    /\ UNCHANGED <<admins, authVars>>
    /\ UNCHANGED tokenVars
    /\ UNCHANGED staticWhitelist
    /\ listed' = NoListed
    /\ UNCHANGED sendVars
    /\ UNCHANGED <<feedbackVars, ingestVars, chunkVars>>

startKeepingHistory(cookie, bearer) ==
    /\ served' = [op |-> "start", status |-> requireAuth(cookie, bearer).status,
                  bearer |-> bearer # NoToken]
    /\ UNCHANGED chatHistory
    /\ UNCHANGED authToken
    /\ SessionFrame

\* POST /api/start: behind requireAuth, req.session.chatHistory = []
start(cookie, bearer) ==
    /\ served' = [op |-> "start", status |-> requireAuth(cookie, bearer).status,
                  bearer |-> bearer # NoToken]
    /\ chatHistory' = IF requireAuth(cookie, bearer).status = 200
                         /\ cookie = Browser
                      THEN <<>> ELSE chatHistory
    /\ UNCHANGED authToken
    /\ SessionFrame

\* POST /api/clear-history: behind requireAuth, req.session.chatHistory = []
clearHistory(cookie, bearer) ==
    /\ served' = [op |-> "clear", status |-> requireAuth(cookie, bearer).status,
                  bearer |-> bearer # NoToken]
    /\ chatHistory' = IF requireAuth(cookie, bearer).status = 200
                         /\ cookie = Browser
                      THEN <<>> ELSE chatHistory
    /\ UNCHANGED authToken
    /\ SessionFrame

\* POST /api/auth/logout: req.session.destroy(), for anyone; the store
\* holds nothing for the cookie afterwards
logout(cookie) ==
    /\ served' = [op |-> "logout", status |-> 200, bearer |-> FALSE]
    /\ chatHistory' = IF cookie = Browser THEN <<>> ELSE chatHistory
    /\ authToken' = IF cookie = Browser THEN NoToken ELSE authToken
    /\ SessionFrame

----------------------------------------------------------------------------
(* The admin endpoints *)

\* requireAdmin as it was first written: requireAuth and nothing else
requireAdminAuthOnly(cookie, bearer) == requireAuth(cookie, bearer)

\* requireAdmin: requireAuth, then 403 unless the decoded user carries the
\* role admin
requireAdmin(cookie, bearer) ==
    LET auth == requireAuth(cookie, bearer)
    IN  IF auth.status # 200 THEN auth
        ELSE IF auth.user # NoToken /\ auth.user.role = "admin" THEN auth
        ELSE [status |-> 403, user |-> auth.user]

NoEmail == ""

\* const token = req.session.authToken || req.headers.authorization?.split(' ')[1]
requestToken(cookie, bearer) ==
    IF cookie = Browser /\ authToken # NoToken THEN authToken ELSE bearer

\* what requireAuth leaves on the request: the token it read, and req.user
\* when verifyToken took the token
requestUser(cookie, bearer) ==
    [token   |-> requestToken(cookie, bearer),
     outcome |-> IF requireAuth(cookie, bearer).status = 200 THEN "ok"
                 ELSE IF requestToken(cookie, bearer) = NoToken
                 THEN "AuthenticationRequired"
                 ELSE "InvalidToken",
     claims  |-> requireAuth(cookie, bearer).user]

\* what the admin endpoints leave alone
AdminFrame ==
    /\ reply' = IdleCall
    /\ mailed' = NoMail
    /\ UNCHANGED <<admins, tempCodes, now, acall, ncalls, trail>>
    /\ UNCHANGED quotaVars
    /\ UNCHANGED <<held, nticks>>
    /\ UNCHANGED sendVars
    /\ UNCHANGED authToken
    /\ UNCHANGED <<feedbackVars, ingestVars, chunkVars>>

\* POST /api/admin/whitelist/add behind requireAdmin: 400 without an email,
\* else authService.addToWhitelist(email). The Redis service's method is
\* async and is not awaited: the SADD is sent and `added` is a promise, so
\* the answer is always 'Email added to whitelist'
whitelistAdd(cookie, bearer, email) ==
    LET auth == requireAdmin(cookie, bearer)
        go   == auth.status = 200 /\ email # NoEmail
    IN  /\ decoded' = requestUser(cookie, bearer)
        /\ served' = [op |-> "whitelistAdd",
                      status |-> IF auth.status # 200 THEN auth.status
                                 ELSE IF email = NoEmail THEN 400 ELSE 200,
                      bearer |-> bearer # NoToken]
        /\ whitelist' = IF go /\ variant = "redis"
                         THEN SADD(whitelist, email).set ELSE whitelist
        /\ staticWhitelist' =
               IF go /\ variant # "redis" /\ ~includes(staticWhitelist, email)
               THEN push(staticWhitelist, email) ELSE staticWhitelist
        /\ listed' = IF go
                      THEN [op |-> "add", email |-> email,
                            result |-> \/ variant = "redis"
                                       \/ ~includes(staticWhitelist, email)]
                      ELSE NoListed
        /\ AdminFrame

\* DELETE /api/admin/whitelist/remove behind requireAdmin: 400 without an
\* email, else authService.removeFromWhitelist(email) and 404 when that
\* returns false; the promise of the Redis service never is
whitelistRemove(cookie, bearer, email) ==
    LET auth    == requireAdmin(cookie, bearer)
        go      == auth.status = 200 /\ email # NoEmail
        removed == \/ variant = "redis"
                   \/ indexOf(staticWhitelist, email) > -1
    IN  /\ decoded' = requestUser(cookie, bearer)
        /\ served' = [op |-> "whitelistRemove",
                      status |-> IF auth.status # 200 THEN auth.status
                                 ELSE IF email = NoEmail THEN 400
                                 ELSE IF removed THEN 200 ELSE 404,
                      bearer |-> bearer # NoToken]
        /\ whitelist' = IF go /\ variant = "redis"
                         THEN SREM(whitelist, email).set ELSE whitelist
        /\ staticWhitelist' =
               IF go /\ variant # "redis"
                     /\ indexOf(staticWhitelist, email) > -1
               THEN splice(staticWhitelist, indexOf(staticWhitelist, email))
               ELSE staticWhitelist
        /\ listed' = IF go
                      THEN [op |-> "remove", email |-> email,
                            result |-> removed]
                      ELSE NoListed
        /\ AdminFrame

\* the token of the static service at the end of verifyCode, which signs
\* the email alone
TokenIssuedEmail(cookie, email) ==
    /\ Cardinality(held \cup {jwtSignEmail(email)}) <= MaxTokens
    /\ held' = held \cup {jwtSignEmail(email)}
    /\ authToken' = IF cookie = Browser THEN jwtSignEmail(email)
                     ELSE authToken
    /\ served' = [op |-> "verify", status |-> 200, bearer |-> FALSE]
    /\ decoded' = NoDecoded
    /\ listed' = NoListed
    /\ UNCHANGED nticks
    /\ UNCHANGED <<admins, authVars>>
    /\ UNCHANGED quotaVars
    /\ UNCHANGED staticWhitelist
    /\ UNCHANGED sendVars
    /\ UNCHANGED <<feedbackVars, ingestVars, chunkVars>>

\* an operator takes an address out of the set admin_emails in Redis
adminRemoved(email) ==
    /\ email \in admins
    /\ admins' = admins \ {email}
    /\ decoded' = NoDecoded
    /\ listed' = NoListed
    /\ served' = NoServed
    /\ UNCHANGED <<held, nticks>>
    /\ UNCHANGED authVars
    /\ UNCHANGED quotaVars
    /\ UNCHANGED staticWhitelist
    /\ UNCHANGED sendVars
    /\ UNCHANGED authToken
    /\ UNCHANGED <<feedbackVars, ingestVars, chunkVars>>

----------------------------------------------------------------------------
(* FeedbackService *)

ValidStatuses == {"pending", "reviewed", "resolved", "dismissed"}

\* the statuses an admin asks for: two valid ones and one that is not
UpdateStatuses == {"pending", "resolved", "archived"}

IdleFeedback == [pc |-> "idle", op |-> "", id |-> 0, index |-> 0,
                 data |-> <<>>]
NoFeedbackReply == [op |-> "none", outcome |-> "", id |-> 0]

\* reports.findIndex(r => r.id === reportId), counted from 1; 0 for -1
findIndex(list, reportId) ==
    IF \E i \in 1..Len(list) : list[i].id = reportId
    THEN CHOOSE i \in 1..Len(list) :
            /\ list[i].id = reportId
            /\ \A j \in 1..(i - 1) : list[j].id # reportId
    ELSE 0

Min(a, b) == IF a < b THEN a ELSE b

FreeFeedback(t) ==
    /\ fcall[t].pc = "idle"
    /\ \A u \in Tasks : u < t => fcall[u].pc # "idle"

\* what the FeedbackService leaves alone
FeedbackFrame ==
    /\ UNCHANGED <<admins, authVars, quotaVars, tokenVars, staticWhitelist,
                   listed, sendVars, sessionVars, ingestVars, chunkVars>>

\* submitFeedback up to its first store operation: the report is made with
\* a new id and status 'pending'. File-backed: the file has been read and
\* the report pushed onto the copy; Redis-backed: LPUSH has put the report
\* at the head of the list
submitFeedback(t) ==
    /\ FreeFeedback(t)
    /\ nfeedback < MaxFeedback
    /\ nfeedback' = nfeedback + 1
    /\ LET report == [id |-> nfeedback + 1, status |-> "pending"]
       IN  IF variant = "file"
           THEN /\ fcall' = [fcall EXCEPT ![t] =
                      [pc |-> "save", op |-> "submit", id |-> report.id,
                       index |-> 0, data |-> reports \o <<report>>]]
                /\ UNCHANGED reports
           ELSE /\ fcall' = [fcall EXCEPT ![t] =
                      [pc |-> "trim", op |-> "submit", id |-> report.id,
                       index |-> 0, data |-> <<>>]]
                /\ reports' = <<report>> \o reports
    /\ freply' = NoFeedbackReply
    /\ FeedbackFrame

\* submitFeedback, the rest: saveFeedbackData writes the copy over the file,
\* or LTRIM keeps the elements 0 to 999 of the list; then the notification
\* is sent and the call returns the id
submitFeedbackStored(t) ==
    /\ fcall[t].op = "submit"
    /\ fcall[t].pc \in {"save", "trim"}
    /\ reports' =
          IF variant = "file" THEN fcall[t].data
          ELSE SubSeq(reports, 1, Min(Len(reports), ReportCap))
    /\ freply' = [op |-> "submit", outcome |-> "ok", id |-> fcall[t].id]
    /\ fcall' = [fcall EXCEPT ![t] = IdleFeedback]
    /\ UNCHANGED nfeedback
    /\ FeedbackFrame

\* updateReportStatus up to its write: the status is tested against
\* validStatuses, the reports are read (file or LRANGE), the report is
\* looked up by id and its copy gets the status
updateReportStatus(t, reportId, status) ==
    /\ FreeFeedback(t)
    /\ nfeedback < MaxFeedback
    /\ nfeedback' = nfeedback + 1
    /\ IF status \notin ValidStatuses
       THEN /\ freply' = [op |-> "update", outcome |-> "InvalidStatus",
                          id |-> reportId]
            /\ UNCHANGED fcall
       ELSE IF findIndex(reports, reportId) = 0
       THEN /\ freply' = [op |-> "update", outcome |-> "ReportNotFound",
                          id |-> reportId]
            /\ UNCHANGED fcall
       ELSE /\ freply' = NoFeedbackReply
            /\ fcall' = [fcall EXCEPT ![t] =
                  [pc |-> "write", op |-> "update", id |-> reportId,
                   index |-> findIndex(reports, reportId),
                   data |-> [reports EXCEPT
                               ![findIndex(reports, reportId)].status =
                                   status]]]
    /\ UNCHANGED reports
    /\ FeedbackFrame

\* updateReportStatus, the write: saveFeedbackData writes the copy over the
\* file; LSET puts the changed report at the index it was found at, and
\* fails when the list has no such index any more
updateReportStatusStored(t) ==
    /\ fcall[t].op = "update"
    /\ fcall[t].pc = "write"
    /\ IF variant = "file"
       THEN /\ reports' = fcall[t].data
            /\ freply' = [op |-> "update", outcome |-> "ok",
                          id |-> fcall[t].id]
       ELSE IF fcall[t].index <= Len(reports)
       THEN /\ reports' = [reports EXCEPT ![fcall[t].index] =
                              fcall[t].data[fcall[t].index]]
            /\ freply' = [op |-> "update", outcome |-> "ok",
                          id |-> fcall[t].id]
       ELSE /\ UNCHANGED reports
            /\ freply' = [op |-> "update", outcome |-> "StoreError",
                          id |-> fcall[t].id]
    /\ fcall' = [fcall EXCEPT ![t] = IdleFeedback]
    /\ UNCHANGED nfeedback
    /\ FeedbackFrame

----------------------------------------------------------------------------
(* QdrantService.upsertDocuments *)

IdleIngest == [pc |-> "idle", n |-> 0, i |-> 0, points |-> {}, run |-> 0]
NoIngestReply == [outcome |-> "none", count |-> 0, batch |-> 0, run |-> 0]

\* the point made of document d in the call numbered run: its id is a
\* fresh UUID, so no two calls make the same point
point(d, run) == [doc |-> d, run |-> run]

\* documents.slice(i, i + batchSize), the documents counted from 1
batch(i, n) == (i + 1)..Min(i + BatchSize, n)

\* what upsertDocuments leaves alone
IngestFrame ==
    /\ UNCHANGED <<admins, authVars, quotaVars, tokenVars, staticWhitelist,
                   listed, sendVars, sessionVars, feedbackVars, chunkVars>>

\* upsertDocuments with n documents, up to the first embedding call: an
\* empty array is refused, initializeCollection can fail
upsertDocuments(n, ok) ==
    /\ icall.pc = "idle"
    /\ nruns < MaxRuns
    /\ nruns' = nruns + 1
    /\ IF n = 0
       THEN /\ ireply' = [outcome |-> "EmptyDocuments", count |-> 0,
                          batch |-> 0, run |-> nruns + 1]
            /\ UNCHANGED icall
       ELSE IF ~ok
       THEN /\ ireply' = [outcome |-> "CollectionError", count |-> 0,
                          batch |-> 0, run |-> nruns + 1]
            /\ UNCHANGED icall
       ELSE /\ ireply' = NoIngestReply
            /\ icall' = [pc |-> "embed", n |-> n, i |-> 0, points |-> {},
                         run |-> nruns + 1]
    /\ UNCHANGED collection
    /\ IngestFrame

generateEmbeddingsUpserting(ok) ==
    /\ icall.pc = "embed"
    /\ IF ok
       THEN /\ icall' = [icall EXCEPT
                  !.points = @ \cup {point(d, icall.run) :
                                        d \in batch(icall.i, icall.n)},
                  !.i = @ + BatchSize,
                  !.pc = IF icall.i + BatchSize < icall.n THEN "embed"
                         ELSE "upsert"]
            /\ ireply' = NoIngestReply
            /\ collection' = collection \cup {point(d, icall.run) :
                                       d \in batch(icall.i, icall.n)}
       ELSE /\ icall' = IdleIngest
            /\ ireply' = [outcome |-> "EmbeddingError", count |-> 0,
                          batch |-> icall.i \div BatchSize,
                          run |-> icall.run]
            /\ UNCHANGED collection
    /\ UNCHANGED nruns
    /\ IngestFrame

\* the embedding call of the batch at i has settled: its points join the
\* array `points` and the loop goes on, or the error ends the call
generateEmbeddings(ok) ==
    /\ icall.pc = "embed"
    /\ IF ok
       THEN /\ icall' = [icall EXCEPT
                  !.points = @ \cup {point(d, icall.run) :
                                        d \in batch(icall.i, icall.n)},
                  !.i = @ + BatchSize,
                  !.pc = IF icall.i + BatchSize < icall.n THEN "embed"
                         ELSE "upsert"]
            /\ ireply' = NoIngestReply
       ELSE /\ icall' = IdleIngest
            /\ ireply' = [outcome |-> "EmbeddingError", count |-> 0,
                          batch |-> icall.i \div BatchSize,
                          run |-> icall.run]
    /\ UNCHANGED collection
    /\ UNCHANGED nruns
    /\ IngestFrame

\* client.upsert with all the points, after the loop: the call returns the
\* number of points, or ends with the error of the request, which the
\* collection may or may not have applied
upsert(ok, applied) ==
    /\ icall.pc = "upsert"
    /\ ok => applied
    /\ collection' = IF applied THEN collection \cup icall.points
                     ELSE collection
    /\ ireply' = IF ok
                 THEN [outcome |-> "success",
                       count |-> Cardinality(icall.points), batch |-> 0,
                       run |-> icall.run]
                 ELSE [outcome |-> "UpsertError", count |-> 0, batch |-> 0,
                       run |-> icall.run]
    /\ icall' = IdleIngest
    /\ UNCHANGED nruns
    /\ IngestFrame

----------------------------------------------------------------------------
(* QdrantService.chunkText and processFile *)

\* a text is the sequence of its characters: a letter, the space, a
\* sentence terminator
Chars == {"a", " ", "."}
Texts == SeqUpTo(Chars, MaxText)
Terminators == {"."}

\* the extensions of a plain-text file and of a file processFile has no
\* case for
Extensions == {".txt", ".csv"}

NoDocument == [ext |-> "", content |-> <<>>]
NoChunked == [maxChunkSize |-> 0, chunks |-> <<>>]
NoProduced == [called |-> FALSE, read |-> FALSE, chunks |-> <<>>]

\* String.prototype.trim, for the space
RECURSIVE trimStart(_)
trimStart(text) ==
    IF text # <<>> /\ Head(text) = " " THEN trimStart(Tail(text)) ELSE text

RECURSIVE trimEnd(_)
trimEnd(text) ==
    IF text # <<>> /\ text[Len(text)] = " "
    THEN trimEnd(SubSeq(text, 1, Len(text) - 1)) ELSE text

trimText(text) == trimEnd(trimStart(text))

\* the first index from i on at which text has a character of (outside)
\* the set, Len(text) + 1 when there is none
RECURSIVE firstIn(_, _, _, _)
firstIn(text, i, set, inside) ==
    IF i > Len(text) THEN i
    ELSE IF (text[i] \in set) = inside THEN i
    ELSE firstIn(text, i + 1, set, inside)

\* text.split(/[.!?]+/): the pieces between the runs of terminators
RECURSIVE splitSentences(_)
splitSentences(text) ==
    LET i == firstIn(text, 1, Terminators, TRUE)
    IN  IF i > Len(text) THEN <<text>>
        ELSE <<SubSeq(text, 1, i - 1)>>
                \o splitSentences(SubSeq(text,
                                         firstIn(text, i, Terminators, FALSE),
                                         Len(text)))

\* text.split(' ')
RECURSIVE splitWords(_)
splitWords(text) ==
    LET i == firstIn(text, 1, {" "}, TRUE)
    IN  IF i > Len(text) THEN <<text>>
        ELSE <<SubSeq(text, 1, i - 1)>>
                \o splitWords(SubSeq(text, i + 1, Len(text)))

\* words.join(' ')
RECURSIVE joinWords(_)
joinWords(words) ==
    IF words = <<>> THEN <<>>
    ELSE IF Len(words) = 1 THEN words[1]
    ELSE words[1] \o <<" ">> \o joinWords(Tail(words))

\* words.slice(-k); slice(-0) is the whole array
sliceLast(words, k) ==
    IF k = 0 \/ k >= Len(words) THEN words
    ELSE SubSeq(words, Len(words) - k + 1, Len(words))

\* the words a new chunk is seeded with: the last floor(overlap / 10) words
\* of the chunk before it
overlapWords(currentChunk, overlap) ==
    sliceLast(splitWords(currentChunk), overlap \div 10)

\* the loop of chunkText over the sentences from index i on
RECURSIVE chunkLoop(_, _, _, _, _, _)
chunkLoop(sentences, i, chunks, currentChunk, maxChunkSize, overlap) ==
    IF i > Len(sentences)
    THEN IF trimText(currentChunk) # <<>>
         THEN Append(chunks, trimText(currentChunk)) ELSE chunks
    ELSE LET sentence == trimText(sentences[i])
         IN  IF Len(currentChunk) + Len(sentence) > maxChunkSize
                   /\ currentChunk # <<>>
             THEN chunkLoop(sentences, i + 1,
                            Append(chunks, trimText(currentChunk)),
                            joinWords(overlapWords(currentChunk, overlap))
                               \o <<" ">> \o sentence,
                            maxChunkSize, overlap)
             ELSE chunkLoop(sentences, i + 1, chunks,
                            currentChunk
                               \o (IF currentChunk # <<>> THEN <<" ">>
                                   ELSE <<>>)
                               \o sentence,
                            maxChunkSize, overlap)

\* chunkText(text, maxChunkSize, overlap)
chunkText(text, maxChunkSize, overlap) ==
    LET sentences == SelectSeq(splitSentences(text),
                               LAMBDA piece : trimText(piece) # <<>>)
        chunks == chunkLoop(sentences, 1, <<>>, <<>>, maxChunkSize, overlap)
    IN  IF chunks # <<>> THEN chunks ELSE <<text>>

\* processTextFile: the chunks of the content with the default sizes, none
\* when the file cannot be read
processTextFile(content, ok) ==
    IF ok THEN chunkText(content, DefaultChunkSize, DefaultOverlap) ELSE <<>>

\* the chunks with their metadata
tagged(chunks, ext) ==
    [index \in 1..Len(chunks) |->
        [text |-> chunks[index], chunkIndex |-> index - 1,
         totalChunks |-> Len(chunks), fileType |-> ext]]

\* what the chunking leaves alone
ChunkFrame ==
    /\ UNCHANGED <<admins, authVars, quotaVars, tokenVars, staticWhitelist,
                   listed, sendVars, sessionVars, feedbackVars, ingestVars>>
    /\ UNCHANGED document

\* a call of chunkText on the text of the document
chunkTextCalled(maxChunkSize) ==
    /\ chunked' = [maxChunkSize |-> maxChunkSize,
                   chunks |-> chunkText(document.content, maxChunkSize,
                                        DefaultOverlap)]
    /\ produced' = NoProduced
    /\ ChunkFrame

\* processFile: the processor of the extension, then the metadata; a file
\* of another extension gives no chunks
processFile(ok) ==
    /\ produced' =
          [called |-> TRUE, read |-> ok,
           chunks |-> IF document.ext = ".txt"
                      THEN tagged(processTextFile(document.content, ok),
                                  document.ext)
                      ELSE <<>>]
    /\ chunked' = NoChunked
    /\ ChunkFrame

----------------------------------------------------------------------------
(* State after construction *)

AuthInit0 ==
    /\ whitelist = initialWhitelist
    /\ admins = initialAdmins
    /\ tempCodes = EmptyObject
    /\ now = 0
    /\ acall = [t \in Tasks |-> IdleCall]
    /\ reply = IdleCall
    /\ ncalls = 0
    /\ trail = [e \in Identities |-> NoTrail]
    /\ mailed = NoMail

QuotaInit0 ==
    /\ userData = EmptyObject
    /\ redisCounts = EmptyObject
    /\ redisExpire = EmptyObject
    /\ today = 0
    /\ qcall = [t \in Tasks |-> IdleQuery]
    /\ qreply = 0
    /\ checked = NoCheck
    /\ nevents = 0
    /\ answered = [e \in Identities |-> [d \in Days |-> 0]]
    /\ faulted = FALSE
    /\ chatHistory = <<>>
    /\ settled = NoSettled

TokenInit0 ==
    /\ held = {}
    /\ decoded = NoDecoded
    /\ nticks = 0
    /\ staticWhitelist = <<AdminId, UserA>>
    /\ listed = NoListed
    /\ sendIn = [prompt |-> <<>>, history |-> <<>>, context |-> <<>>,
                 response |-> <<>>]
    /\ sendOut = NoSend
    /\ authToken = NoToken
    /\ served = NoServed

FeedbackInit0 ==
    /\ reports = <<>>
    /\ fcall = [t \in Tasks |-> IdleFeedback]
    /\ freply = NoFeedbackReply
    /\ nfeedback = 0

IngestInit0 ==
    /\ collection = {}
    /\ icall = IdleIngest
    /\ ireply = NoIngestReply
    /\ nruns = 0

ChunkInit0 ==
    /\ document = NoDocument
    /\ chunked = NoChunked
    /\ produced = NoProduced

InitAuth ==
    /\ AuthInit0
    /\ QuotaInit0
    /\ TokenInit0
    /\ FeedbackInit0
    /\ IngestInit0
    /\ ChunkInit0
    /\ variant = "file"

NextAuth ==
    \/ \E t \in Tasks, email \in Identities, code \in Codes :
           requestVerification(t, email, code)
    \/ \E t \in Tasks : requestVerificationStore(t)
    \/ \E t \in Tasks, emailSent \in BOOLEAN : requestVerificationSent(t, emailSent)
    \/ \E t \in Tasks, email \in Identities, code \in Codes :
           verifyCode(t, email, code)
    \/ \E t \in Tasks : verifyCodeCompared(t)
    \/ \E t \in Tasks : verifyCodeSigned(t)
    \/ \E email \in Identities : addToWhitelist(email)
    \/ \E email \in Identities : removeFromWhitelist(email)
    \/ \E d \in {CodeTTL, CodeTTL + 1} : Tick(d)

SpecAuth == InitAuth /\ [][NextAuth]_vars

\* the AuthService with the codes in a file
NextAuthFile ==
    \/ \E t \in Tasks, email \in Identities, code \in Codes :
           requestVerification(t, email, code)
    \/ \E t \in Tasks : requestVerificationStore(t)
    \/ \E t \in Tasks, emailSent \in BOOLEAN : requestVerificationSent(t, emailSent)
    \/ \E t \in Tasks, email \in Identities, code \in Codes :
           verifyCodeFile(t, email, code)
    \/ \E t \in Tasks : verifyCodeComparedFile(t)
    \/ \E d \in {CodeTTL, CodeTTL + 1} : Tick(d)

SpecAuthFile == InitAuth /\ [][NextAuthFile]_vars

\* the quota under store failures: the requests come from clients without
\* cookies
InitQuota ==
    /\ AuthInit0
    /\ QuotaInit0
    /\ TokenInit0
    /\ FeedbackInit0
    /\ IngestInit0
    /\ ChunkInit0
    /\ variant \in {"file", "redis"}

NextQuota ==
    \/ \E t \in Tasks, email \in Identities, prompt \in Prompts,
              ok \in BOOLEAN : QueryStart(t, NoCookie, email, prompt, ok)
    \/ \E t \in Tasks, outcome \in {"ok", "chat"} :
           QueryGenerated(t, outcome, <<"chunk">>, <<"a1">>)
    \/ \E t \in Tasks, ok \in BOOLEAN : RecordLoaded(t, ok)
    \/ \E t \in Tasks, ok \in BOOLEAN : RecordSaved(t, ok)
    \/ \E t \in Tasks, ok \in BOOLEAN : RecordRedis(t, ok)
    \/ NextDay

SpecQuota == InitQuota /\ [][NextQuota]_vars

\* the conversation of one student in the browser, next to a client
\* without cookies: every store operation succeeds, and sendMessage ends in
\* each of the ways it can
ChatClients == {<<Browser, UserA>>, <<NoCookie, AdminId>>}

InitChat ==
    /\ AuthInit0
    /\ QuotaInit0
    /\ TokenInit0
    /\ FeedbackInit0
    /\ IngestInit0
    /\ ChunkInit0
    /\ variant = "file"

NextChat ==
    \/ \E t \in Tasks, client \in ChatClients, prompt \in Prompts :
           QueryStart(t, client[1], client[2], prompt, TRUE)
    \/ \E t \in Tasks, outcome \in SendOutcomes,
              contextResults \in {<<>>, <<"chunk">>}, responseText \in Answers :
           QueryGenerated(t, outcome, contextResults, responseText)
    \/ \E t \in Tasks : RecordLoaded(t, TRUE)
    \/ \E t \in Tasks : RecordSaved(t, TRUE)
    \/ NextDay

SpecChat == InitChat /\ [][NextChat]_vars

\* one browser session: logins of both identities, queries made as the
\* identity of the session, the resets with and without a bearer token, and
\* logout
InitSession ==
    /\ AuthInit0
    /\ QuotaInit0
    /\ TokenInit0
    /\ FeedbackInit0
    /\ IngestInit0
    /\ ChunkInit0
    /\ variant = "redis"

Bearers == held \cup {NoToken}

NextSession ==
    \/ \E email \in Identities : TokenIssued(Browser, email)
    \/ \E t \in Tasks :
           /\ requireAuth(Browser, NoToken).status = 200
           /\ QueryStart(t, Browser, authToken.email,
                         [len |-> MaxPromptLen, blank |-> FALSE,
                          flagged |-> FALSE], TRUE)
    \/ \E t \in Tasks : QueryGenerated(t, "ok", <<"chunk">>, <<"a1">>)
    \/ \E t \in Tasks : RecordRedis(t, TRUE)
    \/ \E bearer \in Bearers : start(Browser, bearer)
    \/ \E bearer \in Bearers : clearHistory(Browser, bearer)
    \/ logout(Browser)

SpecSession == InitSession /\ [][NextSession]_vars

InitToken ==
    /\ AuthInit0
    /\ QuotaInit0
    /\ TokenInit0
    /\ FeedbackInit0
    /\ IngestInit0
    /\ ChunkInit0
    /\ variant = "file"

NextToken ==
    \/ \E email \in Identities : TokenIssued(NoCookie, email)
    \/ \E token \in held \cup Forged : verifyToken(token)
    \/ \E d \in {1, TokenTTL - 1} : TokenTick(d)

SpecToken == InitToken /\ [][NextToken]_vars

InitSend ==
    /\ AuthInit0
    /\ QuotaInit0
    /\ variant = "file"
    /\ held = {}
    /\ decoded = NoDecoded
    /\ nticks = 0
    /\ staticWhitelist = <<AdminId, UserA>>
    /\ listed = NoListed
    /\ sendIn \in [prompt : Questions,
                    history : SeqUpTo(Turns, MaxHistory),
                    context : SeqUpTo(Chunks, 2),
                    response : Answers]
    /\ sendOut = NoSend
    /\ authToken = NoToken
    /\ served = NoServed
    /\ FeedbackInit0
    /\ IngestInit0
    /\ ChunkInit0

NextSend == SendSucceeds

SpecSend == InitSend /\ [][NextSend]_vars

\* the requests of one student in the browser, with every kind of request
\* body: the store works, and sendMessage answers or fails
GateClients == {<<Browser, UserA>>}

NextGate ==
    \/ \E t \in Tasks, client \in GateClients, prompt \in Prompts :
           QueryStart(t, client[1], client[2], prompt, TRUE)
    \/ \E t \in Tasks, outcome \in {"ok", "chat"} :
           QueryGenerated(t, outcome, <<"chunk">>, <<"a1">>)
    \/ \E t \in Tasks : RecordLoaded(t, TRUE)
    \/ \E t \in Tasks : RecordSaved(t, TRUE)
    \/ NextDay

SpecGate == InitChat /\ [][NextGate]_vars

\* the feedback reports under both services: submissions and status updates
\* of admins, interleaved at their awaits
InitFeedback ==
    /\ AuthInit0
    /\ QuotaInit0
    /\ TokenInit0
    /\ FeedbackInit0
    /\ IngestInit0
    /\ ChunkInit0
    /\ variant \in {"file", "redis"}

NextFeedback ==
    \/ \E t \in Tasks : submitFeedback(t)
    \/ \E t \in Tasks : submitFeedbackStored(t)
    \/ \E t \in Tasks, reportId \in 1..MaxFeedback, status \in UpdateStatuses :
           updateReportStatus(t, reportId, status)
    \/ \E t \in Tasks : updateReportStatusStored(t)

SpecFeedback == InitFeedback /\ [][NextFeedback]_vars

\* ingestion runs with up to MaxDocs chunks, every provider call of which
\* can fail
InitIngest ==
    /\ AuthInit0
    /\ QuotaInit0
    /\ TokenInit0
    /\ FeedbackInit0
    /\ IngestInit0
    /\ ChunkInit0
    /\ variant = "file"

NextIngest ==
    \/ \E n \in 0..MaxDocs, ok \in BOOLEAN : upsertDocuments(n, ok)
    \/ \E ok \in BOOLEAN : generateEmbeddings(ok)
    \/ \E ok \in BOOLEAN, applied \in BOOLEAN : upsert(ok, applied)

SpecIngest == InitIngest /\ [][NextIngest]_vars

\* chunkText and processFile on every text of up to MaxText characters
InitChunk ==
    /\ AuthInit0
    /\ QuotaInit0
    /\ TokenInit0
    /\ FeedbackInit0
    /\ IngestInit0
    /\ variant = "file"
    /\ document \in [ext : Extensions, content : Texts]
    /\ chunked = NoChunked
    /\ produced = NoProduced

ChunkSizes == {DefaultChunkSize, DefaultChunkSize + 2}

NextChunk ==
    \/ \E maxChunkSize \in ChunkSizes : chunkTextCalled(maxChunkSize)
    \/ \E ok \in BOOLEAN : processFile(ok)

SpecChunk == InitChunk /\ [][NextChunk]_vars

\* one browser session of one student: login, queries that are answered
\* with either answer or fail in the chat, the two resets and logout
NextHistory ==
    \/ TokenIssued(Browser, UserA)
    \/ \E t \in Tasks :
           /\ requireAuth(Browser, NoToken).status = 200
           /\ QueryStart(t, Browser, authToken.email,
                         [len |-> MaxPromptLen, blank |-> FALSE,
                          flagged |-> FALSE], TRUE)
    \/ \E t \in Tasks, outcome \in {"ok", "chat"}, responseText \in Answers :
           QueryGenerated(t, outcome, <<"chunk">>, responseText)
    \/ \E t \in Tasks : RecordRedis(t, TRUE)
    \/ start(Browser, NoToken)
    \/ clearHistory(Browser, NoToken)
    \/ logout(Browser)

SpecHistory == InitSession /\ [][NextHistory]_vars

\* the admin endpoints next to logins with and without a session, the
\* clock, logout and a plain request behind requireAuth; both generations
\* of the AuthService
InitAdmin ==
    /\ AuthInit0
    /\ QuotaInit0
    /\ TokenInit0
    /\ FeedbackInit0
    /\ IngestInit0
    /\ ChunkInit0
    /\ variant \in {"file", "redis"}

AdminBearers == held \cup {f \in Forged : f.email = AdminId} \cup {NoToken}

AdminInputs == {AdminId, NoEmail}

\* the user logs in from the browser, the admin from a client that keeps
\* the token itself
AdminLogins == {<<Browser, UserA>>, <<NoCookie, AdminId>>}

NextAdmin ==
    \/ \E login \in AdminLogins :
           /\ variant = "redis"
           /\ nticks <= MaxLoginTicks
           /\ TokenIssued(login[1], login[2])
    \/ \E login \in AdminLogins :
           /\ variant = "file"
           /\ nticks <= MaxLoginTicks
           /\ TokenIssuedEmail(login[1], login[2])
    \/ \E cookie \in Cookies, bearer \in AdminBearers,
          email \in AdminInputs : whitelistAdd(cookie, bearer, email)
    \/ \E cookie \in Cookies, bearer \in AdminBearers,
          email \in AdminInputs : whitelistRemove(cookie, bearer, email)
    \/ logout(Browser)
    \/ \E email \in Identities : adminRemoved(email)
    \/ TokenTick(TokenTTL - 1)

SpecAdmin == InitAdmin /\ [][NextAdmin]_vars

ListInputs == Identities \cup {Newcomer}

NextWhitelist ==
    \/ \E email \in ListInputs : addToWhitelist(email)
    \/ \E email \in ListInputs : removeFromWhitelist(email)
    \/ \E email \in ListInputs : addToWhitelistStatic(email)
    \/ \E email \in ListInputs : removeFromWhitelistStatic(email)

SpecWhitelist == InitToken /\ [][NextWhitelist]_vars

----------------------------------------------------------------------------
(* Properties of the quota *)

\* no recordQuery is between its start and its end
NoRecordInFlight == \A t \in Tasks : qcall[t].pc \notin {"record", "save"}

\* C1: quota atomicity. Starting from an absent counter, when N recordQuery
\* calls for one non-admin identity have all completed on that day, however
\* their loads and saves were interleaved, and no store operation failed,
\* the stored counter of that identity and day is exactly N.
C1_QuotaAtomicity ==
    (variant = "file" /\ ~faulted /\ NoRecordInFlight /\ today = 0) =>
        \A e \in Identities \ admins :
            answered[e][0] = nevents =>
                StoredCount(userData, e, 0) = answered[e][0]

\* C2: the daily quota is a cap. For every non-admin identity and every day,
\* the number of requests that went through the query pipeline and were
\* answered is at most the daily limit, under any interleaving.
C2_DailyCap ==
    (variant = "file" /\ ~faulted) =>
        \A e \in Identities \ admins, d \in Days :
            answered[e][d] <= DailyQueryLimit

C9_AdminExemptState ==
    /\ (checked # NoCheck /\ checked.email \in admins) =>
           (checked.allowed /\ checked.remaining = "unlimited")
    /\ \A e \in admins, d \in Days :
           StoredCount(userData, e, d) = 0 /\ RedisCount(e, d) = 0

C9_AdminExemptStep ==
    \A e \in admins, d \in Days :
        /\ StoredCount(userData', e, d) <= StoredCount(userData, e, d)
        /\ (IF e \in DOMAIN redisCounts' /\ d \in DOMAIN redisCounts'[e]
            THEN redisCounts'[e][d] ELSE 0) <= RedisCount(e, d)

\* C9: admin exemption. In every reachable state checkQueryLimit answers an
\* admin with allowed and unlimited, however many recordQuery calls were made
\* for that admin before, and no step increases the counted usage of an admin,
\* in the file-backed and in the Redis-backed service.
C9_AdminExemption == []C9_AdminExemptState /\ [][C9_AdminExemptStep]_vars

\* an admin is answered by checkQueryLimit after recordQuery calls of that
\* admin have completed and left their trace in the file
C9_Witness ==
    /\ variant = "file"
    /\ checked # NoCheck
    /\ checked.email \in admins
    /\ checked.allowed
    /\ answered[checked.email][today] >= 2
    /\ checked.email \in DOMAIN userData
    /\ today \in DOMAIN userData[checked.email]
    /\ userData[checked.email][today].logged >= 2

\* C10: for a non-admin whose stored counter of the current day is count
\* (0 without a record), the file-backed checkQueryLimit that read the file
\* returns allowed = (count < limit), remaining = max(0, limit - count),
\* used = count and the configured limit; so it refuses exactly when
\* count >= limit.
C10_CheckLimit ==
    (variant = "file" /\ checked # NoCheck /\ checked.email \notin admins
        /\ checked.loaded) =>
        LET count == StoredCount(userData, checked.email, today)
        IN  /\ checked.allowed = (count < DailyQueryLimit)
            /\ checked.remaining = Max(0, DailyQueryLimit - count)
            /\ checked.used = count
            /\ checked.limit = DailyQueryLimit
            /\ ~checked.allowed <=> count >= DailyQueryLimit
            /\ ~checked.isAdmin

\* a non-admin who used up the day's quota is refused with nothing remaining
C10_Witness ==
    /\ variant = "file"
    /\ checked # NoCheck
    /\ checked.email \notin admins
    /\ checked.loaded
    /\ StoredCount(userData, checked.email, today) >= DailyQueryLimit
    /\ ~checked.allowed
    /\ checked.remaining = 0
    /\ qreply = 429

\* C11: in the Redis-backed service, when k recordQuery calls of a non-admin
\* have completed on the current day and none is in flight, checkQueryLimit
\* answers that identity with used = k, allowed = (k < limit) and
\* remaining = max(0, limit - k), as a non-admin.
C11_RedisUsage ==
    (variant = "redis" /\ checked # NoCheck /\ checked.email \notin admins
        /\ ~checked.error /\ NoRecordInFlight) =>
        LET k == answered[checked.email][today]
        IN  /\ checked.allowed = (k < DailyQueryLimit)
            /\ ~checked.isAdmin
            /\ checked.used = k
            /\ checked.remaining = Max(0, DailyQueryLimit - k)

C12_ReadOnlyStep ==
    checked' # NoCheck =>
        /\ userData' = userData
        /\ redisCounts' = redisCounts
        /\ redisExpire' = redisExpire

\* C12: checkQueryLimit is read-only. A step in which checkQueryLimit
\* answers, for any identity and in any state, leaves the stored file, the
\* Redis counters and their expiry as they were: no counter is created,
\* incremented or reset.
C12_CheckReadOnly == [][C12_ReadOnlyStep]_vars

\* checkQueryLimit has read a file that holds records but none of the
\* identity it answers: the entry it creates in memory is not stored
C12_Witness ==
    /\ variant = "file"
    /\ checked # NoCheck
    /\ checked.loaded
    /\ checked.email \notin admins
    /\ checked.used = 0
    /\ userData # EmptyObject
    /\ checked.email \notin DOMAIN userData

\* a check that could not read the store still lets the request through
C13_FailOpen ==
    (checked # NoCheck /\ (checked.error \/ ~checked.loaded)
        /\ ~checked.isAdmin) =>
        (checked.allowed /\ qreply # 429)

\* a recordQuery whose read of the stored records failed ends with the
\* response sent and every counter as it was
C13_SwallowedStep ==
    \A t \in Tasks :
        (qcall[t].pc = "save" /\ qcall'[t].pc = "idle" /\ ~qcall[t].read) =>
            /\ qreply' = 200
            /\ \A e \in Identities, d \in Days :
                   StoredCount(userData', e, d) = StoredCount(userData, e, d)

\* C13: failure policy. When the store fails, checkQueryLimit answers
\* allowed (fail open) instead of raising, and a recordQuery whose store
\* operation failed does not raise: the endpoint still answers with the
\* response, and the quota counters are as they were before.
C13_FailurePolicy == []C13_FailOpen /\ [][C13_SwallowedStep]_vars

\* the first check of an identity on a later day reads a counter of 0
C14_RolloverState ==
    (checked # NoCheck /\ checked.email \notin admins /\ ~checked.error
        /\ (variant = "file" => checked.loaded)
        /\ today > 0 /\ answered[checked.email][today] = 0
        /\ NoRecordInFlight) =>
        (~checked.isAdmin /\ checked.used = 0)

\* a recordQuery that ends changes no counter but the one of its identity
\* and its day
C14_RolloverStep ==
    \A t \in Tasks :
        (qcall[t].pc \in {"record", "save"} /\ qcall'[t].pc = "idle") =>
            \A e \in Identities, d \in Days :
                (e # qcall[t].email
                    \/ d # (IF variant = "file" THEN qcall[t].key ELSE today)) =>
                    /\ StoredCount(userData', e, d) = StoredCount(userData, e, d)
                    /\ (IF e \in DOMAIN redisCounts' /\ d \in DOMAIN redisCounts'[e]
                        THEN redisCounts'[e][d] ELSE 0) = RedisCount(e, d)

\* C14: day rollover. The counter is keyed by identity and UTC day: a
\* recordQuery made on day d changes only the counter of (identity, d), and
\* the first checkQueryLimit of an identity on a later day reads used = 0
\* whatever was recorded on earlier days.
C14_DayRollover == []C14_RolloverState /\ [][C14_RolloverStep]_vars

----------------------------------------------------------------------------
(* Properties of the verification flow *)

\* the step being taken is the call verifyCode(e, .)
VerifyCalled(e) ==
    /\ ncalls' = ncalls + 1
    /\ \/ reply'.op = "verify" /\ reply'.email = e
       \/ \E t \in Tasks : /\ acall[t].pc = "idle"
                           /\ acall'[t].op = "verify"
                           /\ acall'[t].email = e

\* the step being taken is the call requestVerification(e)
RequestCalled(e) ==
    /\ ncalls' = ncalls + 1
    /\ \/ reply'.op = "request" /\ reply'.email = e
       \/ \E t \in Tasks : /\ acall[t].pc = "idle"
                           /\ acall'[t].op = "request"
                           /\ acall'[t].email = e

\* a verifyCode call that started when the trail of its identity was ev
VerifyFrom(c, ev) == c.op = "verify" /\ c.pre.ev = ev

\* C3 - single-use code: once verifyCode(i, c) has succeeded the record of i
\* is gone, and a verifyCode(i, c) that starts before any new record is
\* stored for i returns NoCodeFound without a token and never reaches the
\* comparison.
C3_SingleUse ==
    /\ \A i \in Identities : trail[i].ev = "consumed" => i \notin DOMAIN tempCodes
    /\ VerifyFrom(reply, "consumed") /\ reply.code = reply.pre.code
         => reply.outcome = "NoCodeFound" /\ reply.token = NoToken
    /\ \A t \in Tasks : ~(VerifyFrom(acall[t], "consumed")
                           /\ acall[t].code = acall[t].pre.code)

C3_Witness ==
    /\ VerifyFrom(reply, "consumed")
    /\ reply.code = reply.pre.code
    /\ reply.outcome = "NoCodeFound"

\* C4 - expiry: a stored record expires 10 minutes after the time at which it
\* was stored; a verifyCode that starts later than that returns CodeExpired
\* whatever the code, issues no token and deletes the record, and a
\* verifyCode that starts before a new record is stored returns NoCodeFound.
C4_ExpiryState ==
    /\ \A i \in DOMAIN tempCodes : tempCodes[i].expires = trail[i].at + CodeTTL
    /\ \A i \in Identities : trail[i].ev = "expired" => i \notin DOMAIN tempCodes
    /\ VerifyFrom(reply, "expired") => reply.outcome = "NoCodeFound"
    /\ \A t \in Tasks : ~VerifyFrom(acall[t], "expired")

C4_ExpiryStep ==
    \A e \in Identities :
        VerifyCalled(e) /\ e \in DOMAIN tempCodes /\ now > trail[e].at + CodeTTL
            => /\ reply'.outcome = "CodeExpired"
               /\ reply'.token = NoToken
               /\ e \notin DOMAIN tempCodes'
               /\ acall' = acall

C4_Expiry == []C4_ExpiryState /\ [][C4_ExpiryStep]_vars

C4_Witness ==
    /\ VerifyFrom(reply, "expired")
    /\ reply.outcome = "NoCodeFound"
    /\ reply.code = reply.pre.code

\* C5 - requestVerification for an identity that is not whitelisted when it
\* is called returns NotAuthorized at once: no record is stored or changed,
\* no mail is handed to the transport and nothing of the call stays in
\* flight.
C5_NotAuthorizedStep ==
    \A e \in Identities :
        RequestCalled(e) /\ e \notin whitelist
            => /\ reply'.outcome = "NotAuthorized"
               /\ tempCodes' = tempCodes
               /\ mailed' = NoMail
               /\ acall' = acall

C5_NotAuthorized == [][C5_NotAuthorizedStep]_vars

\* an identity of the seeded whitelist was removed and is refused while the
\* record it obtained earlier is still stored
C5_Witness ==
    /\ reply.op = "request"
    /\ reply.outcome = "NotAuthorized"
    /\ reply.email \in initialWhitelist
    /\ reply.email \in DOMAIN tempCodes

\* C6 - a wrong code does not consume the record: the step that returns
\* InvalidCode leaves every record as it is and issues no token; while a
\* stored record has only seen wrong codes it is still there, a verifyCode
\* with its code that starts inside the validity window reaches the
\* comparison, and it returns a token.
C6_RetryState ==
    /\ \A i \in Identities :
          trail[i].ev \in {"stored", "wrong"} => i \in DOMAIN tempCodes
    /\ VerifyFrom(reply, "wrong") /\ reply.code = reply.pre.code
          /\ reply.outcome # "CodeExpired"
         => /\ reply.outcome = "ok"
            /\ reply.token # NoToken
            /\ reply.token.email = reply.email

C6_RetryStep ==
    /\ reply'.outcome = "InvalidCode"
         => tempCodes' = tempCodes /\ reply'.token = NoToken
    /\ \A e \in Identities :
          VerifyCalled(e) /\ trail[e].ev = "wrong" /\ now <= trail[e].at + CodeTTL
             => reply' = IdleCall /\ acall' # acall

C6_WrongCodeKeepsRecord == []C6_RetryState /\ [][C6_RetryStep]_vars

C6_Witness ==
    /\ VerifyFrom(reply, "wrong")
    /\ reply.code = reply.pre.code
    /\ reply.outcome = "ok"

\* C7 - one active code per identity: the record of an identity is the one
\* written by its latest requestVerification, with the validity window
\* restarted; after a record with code c1 was overwritten by one with a
\* different code c2, verifyCode with c1 returns InvalidCode and verifyCode
\* with c2 succeeds.
C7_OneActiveCode ==
    /\ DOMAIN tempCodes \subseteq Identities
    /\ \A i \in DOMAIN tempCodes :
          /\ tempCodes[i].code = bcryptHash(trail[i].code)
          /\ tempCodes[i].expires = trail[i].at + CodeTTL
    /\ reply.op = "verify" /\ reply.pre.ev \in {"stored", "wrong"}
          /\ reply.pre.prev # 0 /\ reply.pre.prev # reply.pre.code
          /\ reply.outcome # "CodeExpired"
         => /\ reply.code = reply.pre.prev => reply.outcome = "InvalidCode"
            /\ reply.code = reply.pre.code => reply.outcome = "ok"

C7_Witness ==
    /\ reply.op = "verify"
    /\ reply.pre.ev = "stored"
    /\ reply.pre.prev # 0
    /\ reply.pre.prev # reply.pre.code
    /\ reply.code = reply.pre.prev
    /\ reply.outcome = "InvalidCode"

C15_DeliveryState ==
    /\ reply.outcome = "DeliveryFailed"
          /\ trail[reply.email].ev \in {"stored", "wrong"}
          /\ trail[reply.email].code = reply.code
         => /\ reply.email \in DOMAIN tempCodes
            /\ bcryptCompare(reply.code, tempCodes[reply.email].code)
            /\ now <= trail[reply.email].at + CodeTTL
                  => ~IsExpired(now, tempCodes[reply.email])
    /\ reply.op = "verify" /\ reply.pre.ev \in {"stored", "wrong"}
          /\ reply.code = reply.pre.code /\ reply.outcome # "CodeExpired"
         => reply.outcome = "ok" /\ reply.token # NoToken

C15_DeliveryStep ==
    /\ reply'.outcome = "DeliveryFailed"
         => /\ reply'.op = "request"
            /\ tempCodes' = tempCodes
            /\ mailed' = NoMail
            /\ \A t \in Tasks : acall'[t] = acall[t] \/ acall'[t] = IdleCall
    /\ \A e \in Identities :
          VerifyCalled(e) /\ trail[e].ev \in {"stored", "wrong"}
              /\ now <= trail[e].at + CodeTTL
             => reply' = IdleCall /\ acall' # acall

C15_DeliveryFailed == []C15_DeliveryState /\ [][C15_DeliveryStep]_vars

\* delivery has failed, time has passed and the record with the undelivered
\* code is stored and still valid
C15_Witness ==
    /\ reply.outcome = "DeliveryFailed"
    /\ reply.email \in DOMAIN tempCodes
    /\ bcryptCompare(reply.code, tempCodes[reply.email].code)
    /\ now > trail[reply.email].at
    /\ ~IsExpired(now, tempCodes[reply.email])

\* the record of an identity, NoRecord when there is none
RecordOf(codes, email) ==
    IF email \in DOMAIN codes THEN codes[email] ELSE NoRecord

\* the identities for which a call has taken this step
ActingFor(email) ==
    \/ reply'.op # "none" /\ reply'.email = email
    \/ \E t \in Tasks : acall'[t] # acall[t]
                        /\ email \in {acall[t].email, acall'[t].email}

\* C24: under any interleaving of requestVerification and verifyCode calls,
\* an operation for one identity never creates, changes or deletes the
\* verification-code record of another identity.
C24_Confined ==
    [][\A email \in Identities :
          RecordOf(tempCodes', email) # RecordOf(tempCodes, email)
             => ActingFor(email)]_vars

\* C26: a quota record goes no earlier than 30 days after its last write.
\* Every recordQuery of the Redis-backed service that reached the store for
\* a non-admin leaves the key of the identity expiring 30 days from the
\* day of the call, and no key comes to expire before that; and
\* cleanupOldData(30), on whatever later day it runs, takes from the file
\* exactly the per-day records dated before that day minus 30, and an
\* identity only when none of its records is left.
C26_CleanupExact ==
    \A k \in 0..(RetentionDays + 2) :
        LET day == today + k
            cleaned == cleanupOldData(userData, day, RetentionDays)
        IN  \A e \in DOMAIN userData :
               /\ \A d \in DOMAIN userData[e] :
                     IF d < day - RetentionDays
                     THEN e \in DOMAIN cleaned => d \notin DOMAIN cleaned[e]
                     ELSE /\ e \in DOMAIN cleaned
                          /\ d \in DOMAIN cleaned[e]
                          /\ cleaned[e][d] = userData[e][d]
               /\ e \notin DOMAIN cleaned =>
                     \A d \in DOMAIN userData[e] : d < day - RetentionDays

C26_ExpiryRestarted ==
    \A t \in Tasks :
        (RecordRedis(t, TRUE) /\ qcall[t].email \notin admins) =>
            /\ qcall[t].email \in DOMAIN redisExpire'
            /\ redisExpire'[qcall[t].email] = today + RetentionDays

C26_RecordExpiry == []C26_CleanupExact /\ [][C26_ExpiryRestarted]_vars

C26_CleanupOnly == []C26_CleanupExact

\* the requests the handler turns away before generation
OverQuota(email) ==
    IF variant = "file"
    THEN email \notin admins
            /\ StoredCount(userData, email, today) >= DailyQueryLimit
    ELSE FALSE

Turned(email, prompt) ==
    \/ OverQuota(email)
    \/ prompt.blank
    \/ prompt.len > MaxPromptLen
    \/ prompt.flagged

\* C27: a query request that is over quota, or whose prompt is empty,
\* longer than 2000 characters or caught by the content filter, is answered
\* at once with the response of its case (the fixed redirect message for the
\* content filter): no request enters the query pipeline, and the session
\* history and the quota counters stay as they were. A quota counter grows
\* only in the step in which a request whose generation succeeded writes
\* the records and is answered.
C27_TurnedAway ==
    \A t \in Tasks, client \in GateClients, prompt \in Prompts :
        (/\ FreeQuery(t)
         /\ checked'.email = client[2]
         /\ Turned(client[2], prompt)
         /\ QueryStart(t, client[1], client[2], prompt, TRUE)) =>
            LET r == rejection(~OverQuota(client[2]), prompt)
            IN  /\ r # NoRejection
                /\ qreply' = r.status
                /\ prompt.flagged /\ r.status = 403 =>
                      r.message = RedirectMessage /\ r.error = ""
                /\ (~OverQuota(client[2]) /\ ~prompt.blank
                      /\ prompt.len <= MaxPromptLen) =>
                      r.message = RedirectMessage
                /\ UNCHANGED <<qcall, nevents, chatHistory, userData,
                               redisCounts, redisExpire, answered>>
                /\ settled' = NoSettled

C27_CountedOnSuccess ==
    \A e \in Identities, d \in Days :
        StoredCount(userData', e, d) > StoredCount(userData, e, d) =>
            \E t \in Tasks :
                /\ qcall[t].pc = "save"
                /\ qcall'[t] = IdleQuery
                /\ qreply' = 200

C27_RejectedBeforeGeneration ==
    [][C27_TurnedAway /\ C27_CountedOnSuccess]_vars

\* the student's third request of the day has just been refused for the
\* quota, with the two turns of a conversation in the session
C27_Witness ==
    /\ qreply = 429
    /\ checked.email = UserA
    /\ StoredCount(userData, UserA, today) = DailyQueryLimit
    /\ chatHistory # <<>>
    /\ \A t \in Tasks : qcall[t].pc = "idle"

\* the status of the stored report with this id, "" when there is none
StatusOf(list, reportId) ==
    IF findIndex(list, reportId) = 0 THEN ""
    ELSE list[findIndex(list, reportId)].status

\* C28: the life cycle of a report. A report enters the store with status
\* pending, and the status of a stored report changes only from pending to
\* reviewed, resolved or dismissed, in the write of an updateReportStatus.
C28_StatusStep ==
    \A reportId \in 1..MaxFeedback :
        LET before == StatusOf(reports, reportId)
            after == StatusOf(reports', reportId)
        IN  /\ (before = "" /\ after # "") => after = "pending"
            /\ (before # "" /\ after # "" /\ after # before) =>
                  /\ before = "pending"
                  /\ after \in {"reviewed", "resolved", "dismissed"}
                  /\ \E t \in Tasks : fcall[t].pc = "write"
                                         /\ fcall'[t] = IdleFeedback

C28_LifeCycle == [][C28_StatusStep]_vars

\* C29: once no submitFeedback is in progress, the store holds at most
\* ReportCap reports, however many were submitted.
C29_Bounded ==
    (\A t \in Tasks : fcall[t].op # "submit") => Len(reports) <= ReportCap

\* the embedding call of a batch has just failed
EmbeddingFailed == icall.pc = "embed" /\ ireply'.outcome = "EmbeddingError"

\* C30, as stated: when the embedding call of batch k fails, the points of
\* the batches 0..k-1 of the call are in the collection.
C30_EarlierBatchesCommitted ==
    EmbeddingFailed =>
        \A d \in 1..Min(ireply'.batch * BatchSize, icall.n) :
            point(d, icall.run) \in collection'

C30_NothingCommitted ==
    EmbeddingFailed =>
        /\ icall' = IdleIngest
        /\ ireply'.batch = icall.i \div BatchSize
        /\ UNCHANGED collection
        /\ \A p \in collection' : p.run # icall.run

C30_OneUpsert ==
    collection' # collection =>
        /\ icall.pc = "upsert"
        /\ collection' = collection
                            \cup {point(d, icall.run) : d \in 1..icall.n}

VerifyFailures == {"NoCodeFound", "CodeExpired", "InvalidCode"}

\* C25: the verify endpoint answers a failed verifyCode with the same
\* response whether the cause was NoCodeFound, CodeExpired or InvalidCode:
\* the response to any failure is the one a wrong code gets.
C25_Indistinguishable ==
    (reply.op = "verify" /\ reply.outcome \in VerifyFailures) =>
        verifyResponse(reply)
           = verifyResponse([reply EXCEPT !.outcome = "InvalidCode"])

----------------------------------------------------------------------------
(* Properties of the session tokens *)

\* verifyToken answers with the claims of the token or with InvalidToken
C16_Answer ==
    /\ decoded.outcome \in {"ok", "InvalidToken"}
    /\ decoded.outcome = "ok"
         => /\ decoded.claims.email = decoded.token.email
            /\ decoded.claims.role = decoded.token.role
            /\ decoded.claims.role =
                  IF decoded.token.email \in admins THEN "admin" ELSE "user"
    /\ decoded.outcome = "InvalidToken" => decoded.claims = NoToken

----------------------------------------------------------------------------
(* Properties of the whitelist *)

NoDuplicates(arr) ==
    \A i, j \in DOMAIN arr : arr[i] = arr[j] => i = j

C17_MemberState ==
    /\ listed.op = "add" => isEmailWhitelisted(listed.email)
    /\ listed.op = "remove" => ~isEmailWhitelisted(listed.email)
    /\ listed.op = "addStatic" => isEmailWhitelistedStatic(listed.email)
    /\ listed.op = "removeStatic" => ~isEmailWhitelistedStatic(listed.email)
    /\ NoDuplicates(staticWhitelist)

C17_MemberStep ==
    /\ listed'.op = "add" =>
          /\ listed'.result = ~isEmailWhitelisted(listed'.email)
          /\ ~listed'.result => whitelist' = whitelist
    /\ listed'.op = "remove" =>
          /\ listed'.result = isEmailWhitelisted(listed'.email)
          /\ ~listed'.result => whitelist' = whitelist
    /\ listed'.op = "addStatic" =>
          /\ listed'.result = ~isEmailWhitelistedStatic(listed'.email)
          /\ ~listed'.result => staticWhitelist' = staticWhitelist
    /\ listed'.op = "removeStatic" =>
          /\ listed'.result = isEmailWhitelistedStatic(listed'.email)
          /\ ~listed'.result => staticWhitelist' = staticWhitelist

\* C17: whitelist membership. After addToWhitelist(i) the identity is
\* whitelisted and after removeFromWhitelist(i) it is not; adding an
\* identity already present returns false and changes nothing, removing an
\* absent one returns false and changes nothing, and the list never holds an
\* identity twice; in the Redis set and in the array.
C17_Membership == []C17_MemberState /\ [][C17_MemberStep]_vars

\* an identity was removed, and removing it again returned false
C17_Witness ==
    /\ listed.op = "remove"
    /\ ~listed.result
    /\ listed.email \in initialWhitelist
    /\ ~isEmailWhitelisted(listed.email)
    /\ isEmailWhitelistedStatic(listed.email)

\* C18: every admin is whitelisted, in every reachable state, from the
\* seeded sets on and under any sequence of addToWhitelist and
\* removeFromWhitelist.
C18_AdminsWhitelisted == admins \subseteq whitelist

----------------------------------------------------------------------------
(* Properties of the query pipeline *)

\* C19: a successful sendMessage(prompt, history) returns as updatedHistory
\* the history followed by exactly two turns, the user turn with the prompt
\* and the model turn with the response: the earlier turns are kept in
\* order, the length grows by 2, and the user turn holds the prompt as it
\* was given, not the message with the context that was sent to the model.
C19_UpdatedHistory ==
    sendOut # NoSend =>
        /\ sendOut.updatedHistory =
              sendIn.history \o <<UserTurn(sendIn.prompt),
                                  ModelTurn(sendIn.response)>>
        /\ Len(sendOut.updatedHistory) = Len(sendIn.history) + 2
        /\ SubSeq(sendOut.updatedHistory, 1, Len(sendIn.history))
              = sendIn.history
        /\ sendOut.updatedHistory[Len(sendIn.history) + 1].role = "user"
        /\ sendOut.updatedHistory[Len(sendIn.history) + 1].text = sendIn.prompt
        /\ sendOut.updatedHistory[Len(sendIn.history) + 2]
              = ModelTurn(sendOut.response)
        /\ sendOut.response = sendIn.response

\* context was found and sent to the model in front of the question, after
\* an earlier exchange
C19_Witness ==
    /\ sendOut # NoSend
    /\ sendOut.contextUsed
    /\ sendOut.sent # sendIn.prompt
    /\ sendOut.contextChunks = 1
    /\ Len(sendIn.context) = 2
    /\ Len(sendIn.history) = 2
    /\ Len(sendOut.updatedHistory) = 4

RECURSIVE SumTo(_, _)
SumTo(f, n) == IF n < 0 THEN 0 ELSE f[n] + SumTo(f, n - 1)

\* the requests of email that were answered with 200
AnsweredTotal(email) == SumTo(answered[email], MaxEvents)

NoRepeat(calls) ==
    \A i, j \in DOMAIN calls : calls[i] = calls[j] => i = j

\* only the answered requests are in the stored history and in the counters
C20_FailureState ==
    /\ Len(chatHistory) <= 2 * (AnsweredTotal(AdminId) + AnsweredTotal(UserA))
    /\ \A email \in Identities, day \in Days :
          StoredCount(userData, email, day)
             <= answered[email][day]
                + Cardinality({t \in Tasks : /\ qcall[t].pc = "save"
                                             /\ qcall[t].email = email
                                             /\ qcall[t].key = day})

\* the step in which sendMessage ends with the error of one of its providers
C20_FailureStep ==
    settled'.outcome \in SendOutcomes \ {"ok"} =>
        /\ NoRepeat(settled'.calls)
        /\ qreply' = 500
        /\ chatHistory' = chatHistory
        /\ userData' = userData
        /\ redisCounts' = redisCounts
        /\ answered' = answered
        /\ \A t \in Tasks :
              \/ qcall'[t] = qcall[t]
              \/ qcall[t].pc = "gen" /\ qcall'[t] = IdleQuery

\* C20: when the embedding call, the vector search or the chat call fails
\* during a query, sendMessage fails without calling any provider again, the
\* endpoint answers with the generic 500 and no response text, the request is
\* over, and the stored session history and the quota counters are what they
\* were: they only ever hold the requests that were answered.
C20_GenerationFailure == []C20_FailureState /\ [][C20_FailureStep]_vars

\* the vector search has failed in a request that followed an answered one,
\* whose two turns and whose count are still there
C20_Witness ==
    /\ settled.outcome = "retrieval"
    /\ settled.calls = <<"embedContent", "search">>
    /\ qreply = 500
    /\ Len(chatHistory) = 2
    /\ StoredCount(userData, UserA, today) = 1
    /\ AnsweredTotal(UserA) = 1
    /\ \A t \in Tasks : qcall[t].pc = "idle"

----------------------------------------------------------------------------
(* Properties of the session *)

\* the verify endpoint has just answered a successful login
LoggedIn == served'.op = "verify" /\ served'.status = 200

\* C21: immediately after a successful verifyCode on the verify endpoint the
\* conversation history of the session is empty, whatever the session held
\* before the login.
C21_LoginEmptiesHistory == [][LoggedIn => chatHistory' = <<>>]_vars

\* a reset of the history has just been answered
Cleared == served'.op \in {"start", "clear"} /\ served'.status = 200

C22_ResetStep ==
    /\ Cleared => chatHistory' = <<>> /\ authToken' = authToken
    /\ served'.op = "logout" =>
          /\ chatHistory' = <<>>
          /\ authToken' = NoToken
          /\ requireAuth(Browser, NoToken)'.status = 401
    /\ (served.op = "logout" /\ served'.op \in {"start", "clear"}
           /\ ~served'.bearer) =>
          served'.status = 401 /\ UNCHANGED <<chatHistory, authToken>>

C23_ReadThenWrite ==
    \A t \in Tasks :
        /\ (qcall[t].pc = "idle" /\ qcall'[t].pc = "gen"
               /\ qcall'[t].cookie = Browser) =>
              qcall'[t].history = chatHistory
        /\ (qcall[t].pc = "gen" /\ qcall'[t].pc = "record") =>
              /\ SubSeq(qcall'[t].history, 1, Len(qcall[t].history))
                    = qcall[t].history
              /\ Len(qcall'[t].history) = Len(qcall[t].history) + 2
        /\ (qcall[t].pc = "save" /\ qcall'[t].pc = "idle"
               /\ qcall[t].cookie = Browser) =>
              chatHistory' = qcall[t].history

\* C23: the queries of one session are not serialized. Each request writes
\* back the history it read plus its own two turns, so two requests that
\* both read before either writes leave the turns of one of them only: the
\* history has grown by 2 turns instead of 4.
C23_NotSerialized == [][C23_ReadThenWrite]_vars

\* two queries of the browser session have been answered and the stored
\* history holds one exchange
C23_Witness ==
    /\ AnsweredTotal(UserA) = 2
    /\ Len(chatHistory) = 2
    /\ \A t \in Tasks : qcall[t].pc = "idle"

----------------------------------------------------------------------------
(* Properties of the chunking *)

\* the number of characters chunk i was seeded with from the chunk before
\* it: the overlap words and the space after them
Seeded(chunks, i) ==
    IF i = 1 THEN 0
    ELSE Len(joinWords(overlapWords(chunks[i - 1], DefaultOverlap))) + 1

\* chunk i without what it was seeded with
nonOverlap(chunks, i) == SubSeq(chunks[i], Seeded(chunks, i) + 1, Len(chunks[i]))

RECURSIVE concatNonOverlap(_, _)
concatNonOverlap(chunks, i) ==
    IF i > Len(chunks) THEN <<>>
    ELSE nonOverlap(chunks, i) \o concatNonOverlap(chunks, i + 1)

\* the text is one sentence: it has no terminator and is not blank
SingleSentence(text) ==
    /\ \A k \in 1..Len(text) : text[k] \notin Terminators
    /\ trimText(text) # <<>>

\* C31: every chunk chunkText returns is at most maxChunkSize characters
\* long, plus the characters it was seeded with from the chunk before it;
\* and a text of one sentence shorter than maxChunkSize gives exactly one
\* chunk.
C31_ChunkSizeBound ==
    chunked # NoChunked =>
        /\ \A i \in 1..Len(chunked.chunks) :
              Len(chunked.chunks[i])
                 <= chunked.maxChunkSize + Seeded(chunked.chunks, i)
        /\ (SingleSentence(document.content)
               /\ Len(document.content) < chunked.maxChunkSize) =>
              Len(chunked.chunks) = 1

\* the second half of C31 alone
C31_SingleSentence ==
    (chunked # NoChunked /\ SingleSentence(document.content)
        /\ Len(document.content) < chunked.maxChunkSize) =>
        Len(chunked.chunks) = 1

\* C32: the chunks of a text, each without what it was seeded with, joined
\* in order give the text back.
C32_RoundTrip ==
    chunked # NoChunked =>
        concatNonOverlap(chunked.chunks, 1) = document.content

\* the length that is to DefaultChunkSize what 2500 is to 1000
ScenarioLength == (5 * DefaultChunkSize) \div 2

\* C33: processFile returns the chunks of a supported file in text order,
\* chunk number i tagged chunkIndex i - 1 and all tagged with their number
\* as totalChunks; a file of an unsupported extension gives no chunks; and
\* a plain-text file two and a half times as long as the chunk size gives
\* three chunks.
C33_Tagged ==
    produced.called =>
        /\ \A i \in 1..Len(produced.chunks) :
              /\ produced.chunks[i].chunkIndex = i - 1
              /\ produced.chunks[i].totalChunks = Len(produced.chunks)
        /\ (document.ext = ".txt" /\ produced.read) =>
              [i \in 1..Len(produced.chunks) |-> produced.chunks[i].text]
                 = chunkText(document.content, DefaultChunkSize,
                             DefaultOverlap)
        /\ document.ext \notin {".txt"} => produced.chunks = <<>>

C33_Scenario ==
    (produced.called /\ produced.read /\ document.ext = ".txt"
        /\ Len(document.content) = ScenarioLength) =>
        /\ Len(produced.chunks) = 3
        /\ \A i \in 1..3 : /\ produced.chunks[i].chunkIndex = i - 1
                           /\ produced.chunks[i].totalChunks = 3

C33_ProcessFile == C33_Tagged /\ C33_Scenario

----------------------------------------------------------------------------
(* Properties under concurrency *)

\* the comparison of call t has just succeeded: the call goes on to its
\* token
ComparedEqual(t) == acall[t].pc = "compare" /\ acall'[t].pc = "role"

\* C34: one stored code gives at most one token. No verifyCode call gets
\* past its comparison for an identity whose stored code another call has
\* already used and no requestVerification has replaced since.
C34_OneTokenStep ==
    \A t \in Tasks :
        ComparedEqual(t) => trail[acall[t].email].ev # "consumed"

C34_OneToken == [][C34_OneTokenStep]_vars

----------------------------------------------------------------------------
(* Properties of the admin endpoints and of the tokens *)

AdminOps == {"whitelistAdd", "whitelistRemove"}

\* the step is a request to one of the two endpoints
AdminStep == served'.op \in AdminOps /\ decoded' # NoDecoded

ValidNow(token) == token # NoToken /\ jwtVerify(token, JwtSecret, now)

WhitelistKept ==
    /\ whitelist' = whitelist
    /\ staticWhitelist' = staticWhitelist

C35_Rejected ==
    AdminStep
        => /\ ~ValidNow(decoded'.token)
                => served'.status = 401 /\ WhitelistKept
           /\ (ValidNow(decoded'.token) /\ decoded'.token.role # "admin")
                => served'.status = 403 /\ WhitelistKept

C35_ChangedByAdmin ==
    ~WhitelistKept
        => /\ AdminStep
           /\ served'.status = 200
           /\ ValidNow(decoded'.token)
           /\ decoded'.token.role = "admin"

\* C35: the whitelist add and remove endpoints change the whitelist only
\* for a request whose token is valid and carries the role admin; a request
\* without a token or with an invalid one gets 401, one with a valid token
\* of another role gets 403, and both leave the whitelist as it was.
C35_AdminOnly == [][C35_Rejected /\ C35_ChangedByAdmin]_vars

\* a logged-in user who is not an admin was turned away with 403
C35_Witness ==
    /\ served.op \in {"whitelistAdd", "whitelistRemove"}
    /\ served.status = 403
    /\ decoded.token \in held
    /\ decoded.token.email = UserA
    /\ whitelist = initialWhitelist

Unexpired(token) == token \in held /\ ~(now >= token.exp)

C36_Accepted ==
    (AdminStep /\ Unexpired(decoded'.token))
        => /\ served'.status # 401
           /\ decoded'.claims = decoded'.token
           /\ decoded'.token.role = "admin" => served'.status # 403

\* C36: no token is revoked by the server. A token issued by verifyCode
\* that requireAuth reads from the session or from the Authorization header
\* is accepted as long as it has not expired, whatever has happened to the
\* whitelist, the admin set and the session that received it, and the
\* request goes on with the role the token has carried since it was issued.
C36_NeverRevoked == [][C36_Accepted]_vars

\* the token of an admin who is no longer whitelisted nor an admin, sent
\* as a bearer token without a logged-in session, still passes requireAdmin:
\* the request gets as far as the test for the email
C36_Witness ==
    /\ served.op = "whitelistAdd"
    /\ served.status = 400
    /\ served.bearer
    /\ authToken = NoToken
    /\ now > 0
    /\ decoded.claims \in held
    /\ decoded.claims.role = "admin"
    /\ decoded.claims.email \notin admins
    /\ decoded.claims.email \notin whitelist

----------------------------------------------------------------------------
(* Properties of the stored conversation *)

\* user, model, user, model, ...: questions at the odd places, answers at
\* the even ones, and as many of the one as of the other
Alternating(history) ==
    /\ Len(history) % 2 = 0
    /\ \A i \in 1..Len(history) :
          IF i % 2 = 1
          THEN history[i].role = "user" /\ history[i].text \in Questions
          ELSE history[i].role = "model" /\ history[i].text \in Answers

C37_Shape == Alternating(chatHistory)

\* an answered query adds its own question and the response it got for it
\* to the history it read, and nothing else
C37_Paired ==
    \A t \in Tasks, responseText \in Answers :
        (qcall[t].pc = "gen" /\ qcall'[t].pc = "record"
            /\ QueryGenerated(t, "ok", <<"chunk">>, responseText))
        => qcall'[t].history =
              qcall[t].history
                 \o <<UserTurn(promptText(qcall[t].prompt)),
                      ModelTurn(responseText)>>

\* the stored history only changes to empty or to what an answered query
\* hands back
C37_Stored ==
    chatHistory' # chatHistory
        => \/ chatHistory' = <<>>
           \/ \E t \in Tasks :
                 /\ qcall[t].pc = "record"
                 /\ qcall'[t].pc = "idle"
                 /\ chatHistory' = qcall[t].history

\* C37: under every interleaving of start, query, clear-history and logout
\* on a session the stored history has even length and alternates user,
\* model, ... from a user turn on, and each model turn is the response to
\* the question stored right before it.
C37_HistoryShape == []C37_Shape /\ [][C37_Paired /\ C37_Stored]_vars

\* two answered rounds with different responses, stored while another
\* request of the session is still being answered
C37_Witness ==
    /\ Len(chatHistory) = 4
    /\ chatHistory[2] # chatHistory[4]
    /\ \E t \in Tasks : qcall[t].pc \in {"gen", "record"}

----------------------------------------------------------------------------
(* Properties of the feedback reports under concurrency *)

StatusWritten(t) ==
    /\ fcall[t].op = "update"
    /\ fcall[t].pc = "write"
    /\ fcall'[t].pc = "idle"

\* C38: the write of updateReportStatus(reportId, status) leaves every
\* report with another id where it is, with its id and status, and the list
\* as long as it was, with the ids it had: nothing lost, nothing twice.
C38_OthersKeptStep ==
    \A t \in Tasks :
        StatusWritten(t)
        => /\ Len(reports') = Len(reports)
           /\ \A i \in 1..Len(reports) :
                 /\ reports'[i].id = reports[i].id
                 /\ reports[i].id # fcall[t].id => reports'[i] = reports[i]

C38_OnlyThatReport == [][C38_OthersKeptStep]_vars

----------------------------------------------------------------------------
(* Properties of the quota records under concurrency *)

\* what the store holds for an identity: its per-day records in the file,
\* its hash of counters in Redis
StoredFor(data, email) ==
    IF email \in DOMAIN data THEN data[email] ELSE EmptyObject

RecordEnds(t) ==
    /\ qcall[t].pc \in {"record", "save"}
    /\ qcall'[t].pc = "idle"

\* C39: the end of recordQuery(i) leaves the counters and per-day records
\* of every other identity as they were, whatever other calls are under
\* way and whether or not its load of the stored data succeeded.
C39_OthersKeptStep ==
    \A t \in Tasks :
        RecordEnds(t)
        => \A j \in Identities \ {qcall[t].email} :
              /\ StoredFor(userData', j) = StoredFor(userData, j)
              /\ StoredFor(redisCounts', j) = StoredFor(redisCounts, j)

C39_Isolated == [][C39_OthersKeptStep]_vars
====
